---- MODULE Spec2Model ----
(***************************************************************************)
(* Storage orchestration and metadata index of the upload bot              *)
(* (src/bot/storage.py): TelegramStorageManager and TelegramChannelManager *)
(* running as asyncio tasks on one event loop.                             *)
(*                                                                         *)
(* A task runs without interruption from one real suspension point (an     *)
(* await on network or executor I/O) to the next; the pcs in SyncPcs are   *)
(* positions inside such an uninterrupted stretch, where only the running  *)
(* task can take the next step (or the process can crash).                 *)
(***************************************************************************)
EXTENDS Integers, FiniteSets, Sequences, TLC

\* ------------------------------------------------------------------ bounds
NumTasks == 2
MaxMsg == 2
MaxCrashes == 1
MaxCalls == 2
MaxClock == 1
MaxTime == 3

Tasks == 1..NumTasks
\* File ids callers generate, and the user ids of the callers.
FileIds == {1, 2}
Owners == {1, 2}

\* ------------------------------------------------------------------ values
\* Python None for an int-or-None field (telegram_message_id); both are falsy.
None == 0
\* Python None for a str-or-None field (channel_link).
NoLink == << >>
\* Python None where a metadata dict is expected.
NoMeta == [none |-> TRUE]
\* The empty dict {}.
EmptyIndex == [k \in {} |-> NoMeta]

\* self.supported_algorithms
SupportedAlgorithms == {"zip", "gzip", "lzma"}

\* compress_file: the output path is the input path with ".{algorithm}" appended.
CompressOutputPath(input_path, algorithm) == <<input_path, "." \o algorithm>>

\* Paths the handler hands to upload_file: a compressed temp file whose name
\* ends in the algorithm suffix compress_file appended.
SourcePaths == {CompressOutputPath("temp", "zip")}

\* The bytes of the file the user sent.
OriginalContent == <<1, 1, 2>>

\* What a failed read of compressed data gives instead of bytes.
BadData == <<"bad data">>

\* The library codecs (zipfile, gzip, lzma) are lossless codings that change the
\* bytes; run-length coding stands for them.
RECURSIVE RunLengthEncode(_)
RunLengthEncode(data) ==
    IF data = << >> THEN << >>
    ELSE LET rest == RunLengthEncode(Tail(data))
         IN  IF rest # << >> /\ rest[1][1] = Head(data)
             THEN << <<Head(data), rest[1][2] + 1>> >> \o Tail(rest)
             ELSE << <<Head(data), 1>> >> \o rest

RECURSIVE RunLengthDecode(_)
RunLengthDecode(runs) ==
    IF runs = << >> THEN << >>
    ELSE [i \in 1..runs[1][2] |-> runs[1][1]] \o RunLengthDecode(Tail(runs))

\* _compress_zip, _compress_gzip, _compress_lzma: the bytes written to the
\* output file, in the container of the algorithm.
Compress(algorithm, data) ==
    [algorithm |-> algorithm, payload |-> RunLengthEncode(data)]

\* _decompress_zip, _decompress_gzip, _decompress_lzma: the bytes read back;
\* a container of another algorithm is rejected by the library.
Decompress(algorithm, blob) ==
    IF blob.algorithm = algorithm THEN RunLengthDecode(blob.payload) ELSE BadData

\* The bytes of the compressed file at a path compress_file returned.
SourceContent(file_path) ==
    Compress(CHOOSE a \in SupportedAlgorithms : CompressOutputPath(file_path[1], a) = file_path,
             OriginalContent)
\* Descriptor bags built by handle_file_upload.
HandlerDescriptors ==
    { [original_name |-> "a.txt", original_size |-> 10, compressed_size |-> 4,
       compression_algo |-> "zip", compression_ratio |-> 60, file_type |-> "document"] }

\* A metadata dict of a caller that also names the fields upload_file sets
\* itself: file_id, user_id and stored_file_path of another file and user.
OverridingDescriptors ==
    { [file_id |-> 2, user_id |-> 2, stored_file_path |-> <<"file_storage", 2, 2, <<"other", ".zip">>>>] @@ d :
        d \in HandlerDescriptors }

\* The metadata dicts upload_file is called with.
CallerDescriptors == HandlerDescriptors \cup OverridingDescriptors

\* f"t.me/c/{channel_link_id}/{message.id}"
ChannelLink(message_id) == <<"t.me/c", message_id>>

\* os.path.join(storage_dir, f"user_{user_id}", f"{file_id}_{basename(file_path)}")
StoredFilePath(user_id, file_id, file_path) == <<"file_storage", user_id, file_id, file_path>>

\* Instants of the clock in one second.
TicksPerSecond == 2

\* int(time.time()) at an instant of the clock: the whole seconds.
Second(instant) == instant \div TicksPerSecond

\* os.path.join(TEMP_DIR, f"channel_download_{file_id}_{int(time.time())}")
TempDownloadPath(file_id, second) == <<"channel_download", file_id, second>>

\* decompress_file: the algorithm named by the end of the path, "none" when
\* the path ends in none of .zip, .gz, .gzip, .xz, .lzma.
Suffix(path) ==
    IF path[1] = "file_storage" THEN (IF Len(path[4]) = 2 THEN path[4][2] ELSE "")
    ELSE IF path[1] = "channel_download" THEN ""
    ELSE IF Len(path) = 2 THEN path[2] ELSE ""

\* decompress_file, recognising only the short suffixes.
DecompressAlgorithmShort(path) ==
    IF Suffix(path) = ".zip" THEN "zip"
    ELSE IF Suffix(path) = ".gz" THEN "gzip"
    ELSE IF Suffix(path) = ".xz" THEN "lzma"
    ELSE "none"

DecompressAlgorithm(path) ==
    IF Suffix(path) = ".zip" THEN "zip"
    ELSE IF Suffix(path) \in {".gz", ".gzip"} THEN "gzip"
    ELSE IF Suffix(path) \in {".xz", ".lzma"} THEN "lzma"
    ELSE "none"

\* decompress_file, output_path None: input_path.rsplit('.', 1)[0], with
\* "_extracted" for a zip archive, which is unpacked into a directory.
DecompressOutputPath(input_path, algorithm) ==
    IF algorithm = "zip" THEN <<input_path[1], "_extracted">> ELSE <<input_path[1]>>

\* The output path of decompress_file for a local backup, which lies beside
\* the backup in the folder of the user.
StoredOutputPath(path, algorithm) ==
    <<path[1], path[2], path[3], DecompressOutputPath(path[4], algorithm)>>

\* _decompress_zip returns os.path.join(output_dir, namelist()[0]): the one
\* member of the archive, named as the file compress_file was given.
ExtractedFile(output_dir) ==
    <<output_dir[1], output_dir[2], output_dir[3], Append(output_dir[4], output_dir[4][1])>>

\* The path decompress_file returns for a local backup.
DecompressedPath(path, algorithm) ==
    IF algorithm = "zip" THEN ExtractedFile(StoredOutputPath(path, algorithm))
    ELSE StoredOutputPath(path, algorithm)

\* What decompressing a local backup leaves under file_storage/.
DecompressedFiles(path, algorithm) ==
    IF algorithm = "zip"
    THEN {StoredOutputPath(path, algorithm), ExtractedFile(StoredOutputPath(path, algorithm))}
    ELSE {StoredOutputPath(path, algorithm)}

\* ------------------------------------------------------------------ index
\* A lookup by file id alone, without the owner check.
GetFileMetadataAnyOwner(md, file_id, user_id) ==
    IF file_id \in DOMAIN md THEN md[file_id] ELSE NoMeta

\* _get_file_metadata: the record of file_id, provided its user_id matches.
GetFileMetadata(md, file_id, user_id) ==
    IF file_id \in DOMAIN md /\ md[file_id].user_id = user_id
    THEN md[file_id]
    ELSE NoMeta

\* A store that replaces the dict instead of adding to it.
StoreFileMetadataLost(md, file_id, rec) ==
    [k \in {file_id} |-> rec]

\* A store that keeps the record a file id already has.
StoreFileMetadataKeep(md, file_id, rec) ==
    IF file_id \in DOMAIN md
    THEN md
    ELSE [k \in DOMAIN md \cup {file_id} |-> IF k = file_id THEN rec ELSE md[k]]

\* self.metadata[file_id] = metadata
StoreFileMetadata(md, file_id, rec) ==
    [k \in DOMAIN md \cup {file_id} |-> IF k = file_id THEN rec ELSE md[k]]

\* del self.metadata[file_id]
RemoveFileMetadata(md, file_id) ==
    [k \in DOMAIN md \ {file_id} |-> md[k]]

\* json.dump(self.metadata, f): file ids are strings and every field of a
\* record is an int, a string or None, all of which JSON keeps.
\* The keys are written in the order the dict holds them.
JsonDump(md, ord) == [kind |-> "complete", data |-> md, order |-> ord]

\* _load_metadata, had it let the error of an unreadable file out.
LoadMetadataFatal(d) ==
    IF d.kind = "complete" THEN d.data
    ELSE IF d.kind = "missing" THEN EmptyIndex
    ELSE [k \in {0} |-> NoMeta]

\* _load_metadata: a missing file, or one json.load rejects (empty, cut short),
\* gives {}.
LoadMetadata(d) ==
    IF d.kind = "complete" THEN d.data ELSE EmptyIndex

\* json.load gives the keys back in the order of the file.
LoadOrder(d) ==
    IF d.kind = "complete" THEN d.order ELSE << >>

\* A file that json.load rejects: open(..., 'w') has emptied it, or the dump
\* stopped part-way.
TornFile == [kind |-> "torn", data |-> EmptyIndex, order |-> << >>]

\* No file at all.
MissingFile == [kind |-> "missing", data |-> EmptyIndex, order |-> << >>]

\* The key order of the dict after self.metadata[file_id] = ...: a new key goes
\* last, a key already there keeps its place.
StoreOrder(md, ord, file_id) ==
    IF file_id \in DOMAIN md THEN ord ELSE Append(ord, file_id)

\* The key order of the dict after del self.metadata[file_id].
RemoveOrder(ord, file_id) ==
    SelectSeq(ord, LAMBDA k : k # file_id)

\* The dict upload_file builds, had it named the channel as primary storage
\* whenever it tried it rather than when the attempt gave a link.
FileMetadataChannelFirst(file_id, user_id, stored_file_path, telegram_message_id, channel_link, desc, upload_date) ==
    desc @@
    [ file_id |-> file_id,
      user_id |-> user_id,
      stored_file_path |-> stored_file_path,
      telegram_message_id |-> telegram_message_id,
      channel_link |-> channel_link,
      public_link |-> channel_link,
      storage_type |-> "telegram_channel",
      upload_date |-> upload_date ]

\* The dict upload_file builds, had it kept the local path only for records
\* without a channel link.
FileMetadataChannelOnly(file_id, user_id, stored_file_path, telegram_message_id, channel_link, desc, upload_date) ==
    desc @@
    [ file_id |-> file_id,
      user_id |-> user_id,
      stored_file_path |-> IF channel_link # NoLink THEN << >> ELSE stored_file_path,
      telegram_message_id |-> telegram_message_id,
      channel_link |-> channel_link,
      public_link |-> IF channel_link # NoLink THEN channel_link ELSE stored_file_path,
      storage_type |-> IF channel_link # NoLink THEN "telegram_channel" ELSE "local",
      upload_date |-> upload_date ]

\* The dict upload_file builds, had it always named the local copy as primary.
FileMetadataLocalFirst(file_id, user_id, stored_file_path, telegram_message_id, channel_link, desc, upload_date) ==
    desc @@
    [ file_id |-> file_id,
      user_id |-> user_id,
      stored_file_path |-> stored_file_path,
      telegram_message_id |-> telegram_message_id,
      channel_link |-> channel_link,
      public_link |-> stored_file_path,
      storage_type |-> "local",
      upload_date |-> upload_date ]

\* The dict upload_file builds; keys of the caller's bag come last and win.
FileMetadata(file_id, user_id, stored_file_path, telegram_message_id, channel_link, desc, upload_date) ==
    desc @@
    [ file_id |-> file_id,
      user_id |-> user_id,
      stored_file_path |-> stored_file_path,
      telegram_message_id |-> telegram_message_id,
      channel_link |-> channel_link,
      public_link |-> IF channel_link # NoLink THEN channel_link ELSE stored_file_path,
      storage_type |-> IF channel_link # NoLink THEN "telegram_channel" ELSE "local",
      upload_date |-> upload_date ]

\* list_user_files: the file ids of the records whose user_id is user_id.
ListUserFiles(md, user_id) ==
    {k \in DOMAIN md : md[k].user_id = user_id}

\* One entry of the list list_user_files builds from a record.
ListEntry(file_id, rec) ==
    [ file_id |-> file_id,
      original_name |-> rec.original_name,
      original_size |-> rec.original_size,
      compressed_size |-> rec.compressed_size,
      compression_ratio |-> rec.compression_ratio,
      upload_date |-> rec.upload_date,
      public_link |-> rec.public_link,
      storage_type |-> rec.storage_type ]

\* The loop of list_user_files, had it taken every record of the index.
UserFilesAll(md, ord, user_id) ==
    [i \in 1..Len(ord) |-> ListEntry(ord[i], md[ord[i]])]

\* The loop of list_user_files: the records whose user_id matches, in the
\* order the dict holds them.
UserFiles(md, ord, user_id) ==
    LET mine == SelectSeq(ord, LAMBDA k : md[k].user_id = user_id)
    IN  [i \in 1..Len(mine) |-> ListEntry(mine[i], md[mine[i]])]

\* Where a stable descending sort puts one more entry: behind every entry
\* whose upload_date is not smaller.
InsertByDate(sorted, e) ==
    LET k == Cardinality({i \in 1..Len(sorted) : sorted[i].upload_date >= e.upload_date})
    IN  SubSeq(sorted, 1, k) \o <<e>> \o SubSeq(sorted, k + 1, Len(sorted))

\* user_files.sort(key=upload_date, reverse=True): list.sort is stable, also
\* with reverse=True, so entries with equal upload_date keep their order.
RECURSIVE SortNewestFirst(_)
SortNewestFirst(entries) ==
    IF entries = << >> THEN << >>
    ELSE InsertByDate(SortNewestFirst(SubSeq(entries, 1, Len(entries) - 1)),
                      entries[Len(entries)])

\* What list_user_files returns.
ListUserFilesSorted(md, ord, user_id) ==
    SortNewestFirst(UserFiles(md, ord, user_id))

\* ------------------------------------------------------------------ state
VARIABLES
    metadata,        \* self.metadata: file_id -> record
    disk,            \* the file file_metadata.json
    files,           \* paths that exist under file_storage/
    temps,           \* staged channel downloads that exist under TEMP_DIR
    channel,         \* message ids present in the storage channel
    nextMsg,         \* id the channel gives the next message
    channelId,       \* config.STORAGE_CHANNEL_ID is set
    client,          \* self.telethon_client is set
    manager,         \* self.channel_manager: "none", or its state "new", "initialized", "failed"
    task,            \* the calls in flight
    crashes,         \* process restarts so far
    calls,           \* calls made so far
    gone,            \* <<file_id, user_id>> a delete_file answered True for, no upload of it since
    order,           \* the keys of self.metadata in the order the dict holds them
    clock,           \* the last reading of datetime.now()
    comp,            \* the compress_file call in progress or last finished
    dcmp,            \* the decompress_file call in progress or last finished
    handler,         \* the handle_file_upload call in progress or last finished
    responsive,      \* the channel backend answers the requests it is sent
    torn             \* paths under file_storage/ that hold the start of a copy that failed

vars == <<metadata, disk, files, temps, channel, nextMsg, channelId, client, manager, task, crashes, calls, gone, order, clock, comp, dcmp, handler, responsive, torn>>

\* progress_callback None.
NoSink == [given |-> FALSE, raises_at |-> {}]

\* The values download_and_decompress reports.
Milestones == {10, 60, 80, 100}

\* The callbacks a caller can pass: one that returns every time, and for every
\* value one that raises when called with it.
Sinks ==
    {[given |-> TRUE, raises_at |-> {}]} \cup
    {[given |-> TRUE, raises_at |-> {v}] : v \in Milestones}

Idle ==
    [ pc |-> "idle", op |-> "none", file_id |-> 0, user_id |-> 0,
      file_path |-> << >>, desc |-> [none |-> TRUE],
      telegram_message_id |-> None, channel_link |-> NoLink,
      meta |-> NoMeta, compressed |-> << >>,
      \* self.metadata as the call found it when it changed it, kept until
      \* the flush of that change has ended
      pre |-> EmptyIndex,
      result |-> "none", ret |-> << >>,
      \* what the call has observed so far
      seen |-> "-", contacted |-> {}, chan |-> "-", copy |-> "-",
      flush |-> "-", rm |-> "-", chdel |-> "-",
      fetch |-> "-", local |-> "-", dec |-> "-", out |-> << >>,
      \* the progress_callback of a download, the values it was called with
      \* and the value at which it ended the call
      sink |-> NoSink, progress |-> << >>, sunk |-> 0,
      \* the backends the call has attempted, in the order of the attempts
      tried |-> << >>,
      \* temp_download_path of a download that tries the channel
      staging |-> << >>,
      \* what list_user_files returned
      listing |-> << >>,
      \* the path decompress_file returned, and what download_command did
      \* with the file afterwards
      decompressed_path |-> << >>, cleanup |-> "-" ]

\* No compress_file call yet.
NoCompress ==
    [ pc |-> "idle", input_path |-> "", algorithm |-> "", result |-> "none",
      why |-> "-", created |-> FALSE, cleanup |-> "-" ]

\* No decompress_file call yet.
NoDecompress ==
    [ pc |-> "idle", input_path |-> << >>, algorithm |-> "-", output_path |-> << >>,
      result |-> "none", why |-> "-", made |-> {} ]

\* No handle_file_upload call yet.
NoHandler ==
    [ pc |-> "idle", user_id |-> 0, file_size |-> 0, compressed_size |-> 0,
      compression_ratio |-> 0, file_id |-> 0,
      compression_algo |-> "-", known |-> {},
      \* the upload_file call of the handler
      slot |-> 1,
      result |-> "none", why |-> "-", fetched |-> FALSE, compressed |-> FALSE,
      stored |-> FALSE ]

\* Positions inside an uninterrupted stretch of one task.
SyncPcs == {"up_copy", "save_open", "save_dump", "dl_local", "del_local", "del_index"}

\* An event loop that could switch tasks at any statement.
CanRunAnywhere(t) == TRUE

\* The event loop can run (or resume) task t: nobody else is mid-stretch.
CanRun(t) == \A s \in Tasks \ {t} : task[s].pc \notin SyncPcs

\* A new call takes the lowest slot that holds no call in flight (a finished
\* call leaves its result in the slot until the slot is taken again).
FreeSlot(t) ==
    /\ task[t].pc \in {"idle", "done"}
    /\ \A s \in Tasks : s < t => task[s].pc \notin {"idle", "done"}

LoopIdle == \A s \in Tasks : task[s].pc \notin SyncPcs

\* What an earlier run of the bot can leave behind: one uploaded file of user 1
\* with its record flushed, kept locally and, with a message id, in the channel.
PriorUpload(file_path, desc, message_id) ==
    LET path == StoredFilePath(1, 1, file_path)
        link == IF message_id = None THEN NoLink ELSE ChannelLink(message_id)
        rec == FileMetadata(1, 1, path, message_id, link, desc, 0)
    IN  [disk |-> JsonDump(StoreFileMetadata(EmptyIndex, 1, rec), <<1>>),
         files |-> {path},
         channel |-> IF message_id = None THEN {} ELSE {message_id},
         nextMsg |-> IF message_id = None THEN 1 ELSE message_id + 1]

PriorRuns ==
    {PriorUpload(p, d, m) : p \in SourcePaths, d \in HandlerDescriptors, m \in {1}}

\* __init__ with what is on the disk and in the channel when the process starts.
Start(prior_disk, prior_files, prior_channel, prior_nextMsg) ==
    /\ disk = prior_disk
    /\ files = prior_files
    /\ channel = prior_channel
    /\ nextMsg = prior_nextMsg
    /\ metadata = LoadMetadata(disk)
    /\ order = LoadOrder(disk)
    /\ clock = 0
    /\ temps = {}
    /\ channelId \in BOOLEAN
    /\ client = FALSE
    /\ manager = "none"
    /\ task = [t \in Tasks |-> Idle]
    /\ crashes = 0
    /\ calls = 0
    /\ gone = {}
    /\ comp = NoCompress
    /\ dcmp = NoDecompress
    /\ handler = NoHandler
    /\ responsive = TRUE
    /\ torn = {}

\* The first start: no metadata file, nothing stored.
Init ==
    Start(MissingFile, {}, {}, 1)

\* A start after an earlier run.
InitStored ==
    \E prior \in PriorRuns : Start(prior.disk, prior.files, prior.channel, prior.nextMsg)

\* ------------------------------------------------------------------ setup
\* set_telethon_client: the client is kept and, when a channel is configured,
\* a new channel manager is made, not yet verified; a call made again
\* replaces the manager, verified or not, by a new one. The function has no
\* await: it runs between the stretches of the storage calls.
SetTelethonClient ==
    /\ LoopIdle
    /\ client' = TRUE
    /\ manager' = IF channelId THEN "new" ELSE manager
    /\ UNCHANGED <<metadata, disk, files, temps, channel, nextMsg, channelId, task, crashes, calls, gone, order, clock, comp, dcmp, handler, responsive, torn>>

\* TelegramStorageManager.initialize -> TelegramChannelManager.initialize, on
\* the channel manager there is, whatever an earlier initialize() made of it:
\* get_entity answers and initialized is set, or it raises and initialized is
\* reset. The flag is written when the awaited get_entity ends, which the
\* event loop delivers between the stretches of the storage calls.
Initialize ==
    /\ LoopIdle
    /\ manager # "none"
    /\ responsive
    /\ \E entity_ok \in BOOLEAN :
         manager' = IF entity_ok THEN "initialized" ELSE "failed"
    /\ UNCHANGED <<metadata, disk, files, temps, channel, nextMsg, channelId, client, task, crashes, calls, gone, order, clock, comp, dcmp, handler, responsive, torn>>

\* ------------------------------------------------------------------ flush
\* Where a call goes once _save_metadata has returned.
AfterSave(r) ==
    IF r.op = "upload"
    THEN [r EXCEPT !.pc = "done", !.result = "ok", !.ret = r.meta.public_link,
                   !.pre = EmptyIndex]
    ELSE [r EXCEPT !.pc = "done", !.result = "true", !.pre = EmptyIndex]

\* A delete_file that answers True is remembered until the id is uploaded again.
GoneAfter(r) ==
    IF r.op = "delete" /\ r.pc = "done" /\ r.result = "true"
    THEN gone \cup {<<r.file_id, r.user_id>>}
    ELSE gone

\* _save_metadata, open(self.metadata_file, 'w'): the file is truncated in
\* place, or open raises and the except clause swallows it.
SaveOpen(t) ==
    /\ task[t].pc = "save_open"
    /\ \E open_ok \in BOOLEAN :
         IF open_ok
         THEN /\ disk' = TornFile
              /\ task' = [task EXCEPT ![t].pc = "save_dump"]
         ELSE /\ disk' = disk
              /\ task' = [task EXCEPT ![t] = AfterSave([task[t] EXCEPT !.flush = "failed"])]
    /\ gone' = GoneAfter(task'[t])
    /\ UNCHANGED <<metadata, files, temps, channel, nextMsg, channelId, client, manager, crashes, calls, order, clock, comp, dcmp, handler, responsive, torn>>

\* _save_metadata, json.dump and close: the whole index is written, or the
\* write raises part-way and the except clause swallows it.
SaveDump(t) ==
    /\ task[t].pc = "save_dump"
    /\ \E dump_ok \in BOOLEAN :
         IF dump_ok
         THEN /\ disk' = JsonDump(metadata, order)
              /\ task' = [task EXCEPT ![t] = AfterSave([task[t] EXCEPT !.flush = "ok"])]
         ELSE /\ disk' = TornFile
              /\ task' = [task EXCEPT ![t] = AfterSave([task[t] EXCEPT !.flush = "failed"])]
    /\ gone' = GoneAfter(task'[t])
    /\ UNCHANGED <<metadata, files, temps, channel, nextMsg, channelId, client, manager, crashes, calls, order, clock, comp, dcmp, handler, responsive, torn>>

\* upload_file, had it tried the channel whenever a channel manager exists,
\* verified or not.
UploadCallWheneverManaged(t, file_id, user_id, file_path, desc) ==
    /\ FreeSlot(t)
    /\ CanRun(t)
    /\ calls < MaxCalls
    /\ calls' = calls + 1
    /\ task' = [task EXCEPT ![t] =
                  [Idle EXCEPT !.op = "upload", !.file_id = file_id, !.user_id = user_id,
                               !.file_path = file_path, !.desc = desc,
                               !.pc = IF manager # "none" THEN "up_send" ELSE "up_copy",
                               !.chan = IF manager # "none" THEN "-" ELSE "no_manager",
                               !.contacted = IF manager # "none" THEN {"channel"} ELSE {},
                               !.tried = IF manager # "none" THEN <<"channel">> ELSE << >>]]
    /\ UNCHANGED <<metadata, disk, files, temps, channel, nextMsg, channelId, client, manager, crashes, gone, order, clock, comp, dcmp, handler, responsive, torn>>

\* ------------------------------------------------------------------ upload
\* upload_file is entered: the channel is tried when a channel manager exists
\* and is initialized; otherwise the call goes straight on to the local copy.
UploadEntered(file_id, user_id, file_path, desc) ==
    [Idle EXCEPT !.op = "upload", !.file_id = file_id, !.user_id = user_id,
                 !.file_path = file_path, !.desc = desc,
                 !.pc = IF manager = "initialized" THEN "up_send" ELSE "up_copy",
                 !.chan = IF manager = "initialized" THEN "-"
                          ELSE IF manager = "none" THEN "no_manager"
                          ELSE "not_initialized",
                 !.contacted = IF manager = "initialized" THEN {"channel"} ELSE {},
                 !.tried = IF manager = "initialized" THEN <<"channel">> ELSE << >>]

\* A caller other than the upload handler enters upload_file.
UploadCall(t, file_id, user_id, file_path, desc) ==
    /\ FreeSlot(t)
    /\ CanRun(t)
    /\ calls < MaxCalls
    /\ calls' = calls + 1
    /\ task' = [task EXCEPT ![t] = UploadEntered(file_id, user_id, file_path, desc)]
    /\ UNCHANGED <<metadata, disk, files, temps, channel, nextMsg, channelId, client, manager, crashes, gone, order, clock, comp, dcmp, handler, responsive, torn>>

\* The channel attempt, had the record been put in self.metadata as soon as
\* the channel had the file.
UploadSendDoneStoreEarly(t) ==
    /\ task[t].pc = "up_send"
    /\ CanRun(t)
    /\ \E how \in {"sent", "returned_none", "raised", "cancelled"} :
         /\ responsive \/ how = "cancelled"
         /\ IF how = "sent" /\ nextMsg <= MaxMsg
            THEN /\ channel' = channel \cup {nextMsg}
                 /\ nextMsg' = nextMsg + 1
                 /\ task' = [task EXCEPT ![t].pc = "up_copy", ![t].chan = "ok",
                                         ![t].telegram_message_id = nextMsg,
                                         ![t].channel_link = ChannelLink(nextMsg)]
                 /\ metadata' = StoreFileMetadata(metadata, task[t].file_id,
                                    FileMetadata(task[t].file_id, task[t].user_id, << >>, nextMsg,
                                                 ChannelLink(nextMsg), task[t].desc, clock))
                 /\ order' = StoreOrder(metadata, order, task[t].file_id)
            ELSE /\ UNCHANGED <<channel, nextMsg, metadata, order>>
                 /\ task' = [task EXCEPT ![t].pc = IF how = "cancelled" THEN "done" ELSE "up_copy",
                                         ![t].result = IF how = "cancelled" THEN "cancelled" ELSE @,
                                         ![t].chan = IF how = "sent" THEN "returned_none" ELSE how]
    /\ UNCHANGED <<disk, files, temps, channelId, client, manager, crashes, calls, gone, clock, comp, dcmp, handler, responsive, torn>>

\* TelegramChannelManager.upload_file: send_file answers with a message, or
\* raises and the manager returns None; or the task is cancelled while it
\* waits, which no except Exception clause on the way out catches, so
\* upload_file ends there.
UploadSendDone(t) ==
    /\ task[t].pc = "up_send"
    /\ CanRun(t)
    /\ \E how \in {"sent", "returned_none", "raised", "cancelled"} :
         /\ responsive \/ how = "cancelled"
         /\ IF how = "sent" /\ nextMsg <= MaxMsg
            THEN /\ channel' = channel \cup {nextMsg}
                 /\ nextMsg' = nextMsg + 1
                 /\ task' = [task EXCEPT ![t].pc = "up_copy", ![t].chan = "ok",
                                         ![t].telegram_message_id = nextMsg,
                                         ![t].channel_link = ChannelLink(nextMsg)]
            ELSE /\ UNCHANGED <<channel, nextMsg>>
                 /\ task' = [task EXCEPT ![t].pc = IF how = "cancelled" THEN "done" ELSE "up_copy",
                                         ![t].result = IF how = "cancelled" THEN "cancelled" ELSE @,
                                         ![t].chan = IF how = "sent" THEN "returned_none" ELSE how]
    /\ UNCHANGED <<metadata, disk, files, temps, channelId, client, manager, crashes, calls, gone, order, clock, comp, dcmp, handler, responsive, torn>>

\* The local backup, had the record been put in self.metadata before the copy.
UploadCopyStoreFirst(t) ==
    LET r == task[t]
        path == StoredFilePath(r.user_id, r.file_id, r.file_path)
    IN  /\ r.pc = "up_copy"
        /\ \E copy_ok \in BOOLEAN, tick \in BOOLEAN, left \in {"nothing", "start", "whole"} :
             LET now == IF tick /\ clock < MaxClock THEN clock + 1 ELSE clock
                 rec == FileMetadata(r.file_id, r.user_id, path, r.telegram_message_id,
                                     r.channel_link, r.desc, now)
             IN
             IF copy_ok
             THEN /\ files' = files \cup {path}
                  /\ torn' = torn \ {path}
                  /\ metadata' = StoreFileMetadata(metadata, r.file_id, rec)
                  /\ order' = StoreOrder(metadata, order, r.file_id)
                  /\ clock' = now
                  /\ task' = [task EXCEPT ![t].pc = "save_open", ![t].copy = "ok",
                                          ![t].meta = rec, ![t].pre = metadata,
                                          ![t].tried = Append(@, "local")]
                  /\ gone' = {g \in gone : g[1] # r.file_id}
             ELSE /\ files' = IF left = "nothing" THEN files ELSE files \cup {path}
                  /\ torn' = IF left = "start" THEN torn \cup {path}
                             ELSE IF left = "whole" THEN torn \ {path}
                             ELSE torn
                  /\ metadata' = StoreFileMetadata(metadata, r.file_id, rec)
                  /\ order' = StoreOrder(metadata, order, r.file_id)
                  /\ clock' = now
                  /\ task' = [task EXCEPT ![t].pc = "done", ![t].copy = "failed",
                                          ![t].result = "raised",
                                          ![t].tried = Append(@, "local")]
                  /\ gone' = gone
        /\ UNCHANGED <<disk, temps, channel, nextMsg, channelId, client, manager, crashes, calls, comp, dcmp, handler, responsive>>

\* The local backup: shutil.copy2 succeeds and the record is built and put in
\* self.metadata, or it raises and the call re-raises. copy2 copies the bytes
\* and then the times and mode of the file, and either part can raise: what
\* is left at the backup path is nothing, the start of the file, or the whole
\* file.
UploadCopy(t) ==
    LET r == task[t]
        path == StoredFilePath(r.user_id, r.file_id, r.file_path)
    IN  /\ r.pc = "up_copy"
        /\ \E copy_ok \in BOOLEAN, tick \in BOOLEAN, left \in {"nothing", "start", "whole"} :
             LET now == IF tick /\ clock < MaxClock THEN clock + 1 ELSE clock
                 rec == FileMetadata(r.file_id, r.user_id, path, r.telegram_message_id,
                                     r.channel_link, r.desc, now)
             IN
             IF copy_ok
             THEN /\ files' = files \cup {path}
                  /\ torn' = torn \ {path}
                  /\ metadata' = StoreFileMetadata(metadata, r.file_id, rec)
                  /\ order' = StoreOrder(metadata, order, r.file_id)
                  /\ clock' = now
                  /\ task' = [task EXCEPT ![t].pc = "save_open", ![t].copy = "ok",
                                          ![t].meta = rec, ![t].pre = metadata,
                                          ![t].tried = Append(@, "local")]
                  /\ gone' = {g \in gone : g[1] # r.file_id}
             ELSE /\ files' = IF left = "nothing" THEN files ELSE files \cup {path}
                  /\ torn' = IF left = "start" THEN torn \cup {path}
                             ELSE IF left = "whole" THEN torn \ {path}
                             ELSE torn
                  /\ metadata' = metadata
                  /\ order' = order
                  /\ clock' = clock
                  /\ task' = [task EXCEPT ![t].pc = "done", ![t].copy = "failed",
                                          ![t].result = "raised",
                                          ![t].tried = Append(@, "local")]
                  /\ gone' = gone
        /\ UNCHANGED <<disk, temps, channel, nextMsg, channelId, client, manager, crashes, calls, comp, dcmp, handler, responsive>>

\* ------------------------------------------------------------------ delete
\* What the index holds for (file_id, user_id) when a call looks it up.
Seen(file_id, user_id) ==
    IF file_id \notin DOMAIN metadata THEN "absent"
    ELSE IF metadata[file_id].user_id = user_id THEN "own" ELSE "other"

\* delete_file is entered: the lookup scoped to the owner; no record, False.
DeleteCall(t, file_id, user_id) ==
    LET meta == GetFileMetadata(metadata, file_id, user_id)
        r == [Idle EXCEPT !.op = "delete", !.file_id = file_id, !.user_id = user_id,
                          !.meta = meta, !.seen = Seen(file_id, user_id)]
    IN  /\ FreeSlot(t)
        /\ CanRun(t)
        /\ calls < MaxCalls
        /\ calls' = calls + 1
        /\ task' = [task EXCEPT ![t] =
                      IF meta = NoMeta
                      THEN [r EXCEPT !.pc = "done", !.result = "false"]
                      ELSE [r EXCEPT !.pc = "del_local"]]
        /\ UNCHANGED <<metadata, disk, files, temps, channel, nextMsg, channelId, client, manager, crashes, gone, order, clock, comp, dcmp, handler, responsive, torn>>

\* The channel is asked to delete the message when the record has a message
\* id, the channel id is configured and a client is set.
DeleteNext(r) ==
    IF r.meta.telegram_message_id # None /\ channelId /\ client
    THEN [r EXCEPT !.pc = "del_msg", !.contacted = @ \cup {"channel"},
                   !.tried = Append(@, "channel")]
    ELSE [r EXCEPT !.pc = "del_index"]

\* delete_file, the local backup: removed when it exists; os.remove raising
\* is caught by the outer except clause, which returns False.
DeleteLocal(t) ==
    LET r == task[t]
        path == r.meta.stored_file_path
    IN  /\ r.pc = "del_local"
        /\ IF path \in files
           THEN \E rm_ok \in BOOLEAN :
                  IF rm_ok
                  THEN /\ files' = files \ {path}
                       /\ torn' = torn \ {path}
                       /\ task' = [task EXCEPT ![t] =
                                     DeleteNext([r EXCEPT !.rm = "ok",
                                                          !.tried = Append(@, "local")])]
                  ELSE /\ files' = files
                       /\ torn' = torn
                       /\ task' = [task EXCEPT ![t].pc = "done", ![t].rm = "failed",
                                               ![t].result = "false",
                                               ![t].tried = Append(@, "local")]
           ELSE /\ files' = files
                /\ torn' = torn
                /\ task' = [task EXCEPT ![t] = DeleteNext([r EXCEPT !.rm = "absent"])]
        /\ UNCHANGED <<metadata, disk, temps, channel, nextMsg, channelId, client, manager, crashes, calls, gone, order, clock, comp, dcmp, handler, responsive>>

\* delete_messages answers, or raises and the inner except clause logs it;
\* or the task is cancelled while it waits: CancelledError is no Exception,
\* so neither except clause catches it and the call ends there.
DeleteMsgDone(t) ==
    /\ task[t].pc = "del_msg"
    /\ CanRun(t)
    /\ \E how \in {"deleted", "raised", "cancelled"} :
         /\ responsive \/ how = "cancelled"
         /\ IF how = "deleted"
            THEN /\ channel' = channel \ {task[t].meta.telegram_message_id}
                 /\ task' = [task EXCEPT ![t].pc = "del_index", ![t].chdel = "ok"]
            ELSE IF how = "raised"
            THEN /\ channel' = channel
                 /\ task' = [task EXCEPT ![t].pc = "del_index", ![t].chdel = "failed"]
            ELSE /\ channel' = channel
                 /\ task' = [task EXCEPT ![t].pc = "done", ![t].chdel = "cancelled",
                                         ![t].result = "cancelled"]
    /\ UNCHANGED <<metadata, disk, files, temps, nextMsg, channelId, client, manager, crashes, calls, gone, order, clock, comp, dcmp, handler, responsive, torn>>

\* if file_id in self.metadata: del self.metadata[file_id]; _save_metadata()
DeleteIndex(t) ==
    LET r == task[t]
    IN  /\ r.pc = "del_index"
        /\ IF r.file_id \in DOMAIN metadata
           THEN /\ metadata' = RemoveFileMetadata(metadata, r.file_id)
                /\ order' = RemoveOrder(order, r.file_id)
                /\ task' = [task EXCEPT ![t].pc = "save_open", ![t].pre = metadata]
           ELSE /\ metadata' = metadata
                /\ order' = order
                /\ task' = [task EXCEPT ![t].pc = "done", ![t].result = "true"]
        /\ gone' = GoneAfter(task'[t])
        /\ UNCHANGED <<disk, files, temps, channel, nextMsg, channelId, client, manager, crashes, calls, clock, comp, dcmp, handler, responsive, torn>>

\* ---------------------------------------------------------------- download
\* progress_callback(value) is called, when a callback was given.
Report(r, value) ==
    IF r.sink.given THEN [r EXCEPT !.progress = Append(@, value)] ELSE r

\* The callback raises when called with value.
SinkRaises(r, value) == r.sink.given /\ value \in r.sink.raises_at

\* The exception of the callback reaches the outer except clause of
\* download_and_decompress, which logs it and raises it again.
Sunk(r, value) == [r EXCEPT !.pc = "done", !.result = "raised", !.sunk = value]

\* Positions of a download waiting in `await progress_callback(value)`;
\* dl_p60c is the report of 60 inside the try of the channel branch.
ProgressPcs == {"dl_p10", "dl_p60c", "dl_p60", "dl_p80", "dl_p100"}

\* The value the callback was called with at a position.
ProgressValue(pc) ==
    IF pc = "dl_p10" THEN 10
    ELSE IF pc \in {"dl_p60c", "dl_p60"} THEN 60
    ELSE IF pc = "dl_p80" THEN 80
    ELSE 100

\* The branch download_and_decompress takes, had it tried the channel
\* whenever the channel is configured and a client is set.
DownloadDecideChannelWhenUp(r) ==
    IF channelId /\ client
    THEN [r EXCEPT !.pc = "dl_get", !.contacted = {"channel"},
                   !.tried = <<"channel">>,
                   !.staging = TempDownloadPath(r.file_id, Second(clock))]
    ELSE [r EXCEPT !.pc = "dl_local"]

\* The branch download_and_decompress takes once the record is read and the
\* callback has been told 10: the channel is tried when the record has a
\* message id, the channel id is configured and a client is set, and the
\* staging path is named from the clock at that moment.
DownloadDecide(r) ==
    IF r.meta.telegram_message_id # None /\ channelId /\ client
    THEN [r EXCEPT !.pc = "dl_get", !.contacted = {"channel"},
                   !.tried = <<"channel">>,
                   !.staging = TempDownloadPath(r.file_id, Second(clock))]
    ELSE [r EXCEPT !.pc = "dl_local"]

\* download_and_decompress, had it tried the channel whenever the channel is
\* configured and a client is set.
DownloadCallChannelWhenUp(t, file_id, user_id, sink) ==
    LET meta == GetFileMetadata(metadata, file_id, user_id)
        r0 == [Idle EXCEPT !.op = "download", !.file_id = file_id, !.user_id = user_id,
                           !.meta = meta, !.seen = Seen(file_id, user_id), !.sink = sink]
    IN  /\ FreeSlot(t)
        /\ CanRun(t)
        /\ calls < MaxCalls
        /\ calls' = calls + 1
        /\ task' = [task EXCEPT ![t] =
                      IF meta = NoMeta
                      THEN [r0 EXCEPT !.pc = "done", !.result = "not_found"]
                      ELSE IF sink.given
                      THEN [Report(r0, 10) EXCEPT !.pc = "dl_p10"]
                      ELSE DownloadDecideChannelWhenUp(r0)]
        /\ UNCHANGED <<metadata, disk, files, temps, channel, nextMsg, channelId, client, manager, crashes, gone, order, clock, comp, dcmp, handler, responsive, torn>>

\* download_and_decompress is entered: the lookup scoped to the owner; no
\* record, None. With a callback the call then waits in progress_callback(10);
\* without one it goes straight on to choose its branch.
DownloadCall(t, file_id, user_id, sink) ==
    LET meta == GetFileMetadata(metadata, file_id, user_id)
        r0 == [Idle EXCEPT !.op = "download", !.file_id = file_id, !.user_id = user_id,
                           !.meta = meta, !.seen = Seen(file_id, user_id), !.sink = sink]
    IN  /\ FreeSlot(t)
        /\ CanRun(t)
        /\ calls < MaxCalls
        /\ calls' = calls + 1
        /\ task' = [task EXCEPT ![t] =
                      IF meta = NoMeta
                      THEN [r0 EXCEPT !.pc = "done", !.result = "not_found"]
                      ELSE IF sink.given
                      THEN [Report(r0, 10) EXCEPT !.pc = "dl_p10"]
                      ELSE DownloadDecide(r0)]
        /\ UNCHANGED <<metadata, disk, files, temps, channel, nextMsg, channelId, client, manager, crashes, gone, order, clock, comp, dcmp, handler, responsive, torn>>

\* A download whose task is cancelled while it waits: CancelledError is no
\* Exception, neither except clause catches it and the call ends there.
Cancelled(r) == [r EXCEPT !.pc = "done", !.result = "cancelled"]

\* The channel fetch, had a failure of get_messages ended the call.
DownloadGetDoneFatal(t) ==
    /\ task[t].pc = "dl_get"
    /\ CanRun(t)
    /\ \E how \in {"message", "missing", "raised", "cancelled"} :
         /\ responsive \/ how = "cancelled"
         /\ task' = [task EXCEPT ![t] =
                       IF how = "cancelled" THEN Cancelled(@)
                       ELSE IF how = "message" /\ task[t].meta.telegram_message_id \in channel
                       THEN [@ EXCEPT !.pc = "dl_media"]
                       ELSE [@ EXCEPT !.pc = "done", !.result = "raised",
                                      !.fetch = IF how = "raised" THEN "raised" ELSE "missing"]]
    /\ UNCHANGED <<metadata, disk, files, temps, channel, nextMsg, channelId, client, manager, crashes, calls, gone, order, clock, comp, dcmp, handler, responsive, torn>>

\* The channel fetch, had a failed get_messages been sent a second time.
DownloadGetDoneRetry(t) ==
    /\ task[t].pc = "dl_get"
    /\ CanRun(t)
    /\ \E how \in {"message", "missing", "raised", "cancelled"} :
         /\ responsive \/ how = "cancelled"
         /\ task' = [task EXCEPT ![t] =
                       IF how = "cancelled" THEN Cancelled(@)
                       ELSE IF how = "message" /\ task[t].meta.telegram_message_id \in channel
                       THEN [@ EXCEPT !.pc = "dl_media"]
                       ELSE IF Len(task[t].tried) < 2
                       THEN [@ EXCEPT !.tried = Append(@, "channel")]
                       ELSE [@ EXCEPT !.pc = "dl_local",
                                      !.fetch = IF how = "raised" THEN "raised" ELSE "missing"]]
    /\ UNCHANGED <<metadata, disk, files, temps, channel, nextMsg, channelId, client, manager, crashes, calls, gone, order, clock, comp, dcmp, handler, responsive, torn>>

\* get_messages answers with the message, answers None or a message without
\* media (deleted out-of-band), or raises; or the task is cancelled while it
\* waits.
DownloadGetDone(t) ==
    /\ task[t].pc = "dl_get"
    /\ CanRun(t)
    /\ \E how \in {"message", "missing", "raised", "cancelled"} :
         /\ responsive \/ how = "cancelled"
         /\ task' = [task EXCEPT ![t] =
                       IF how = "cancelled" THEN Cancelled(@)
                       ELSE IF how = "message" /\ task[t].meta.telegram_message_id \in channel
                       THEN [@ EXCEPT !.pc = "dl_media"]
                       ELSE [@ EXCEPT !.pc = "dl_local",
                                      !.fetch = IF how = "raised" THEN "raised" ELSE "missing"]]
    /\ UNCHANGED <<metadata, disk, files, temps, channel, nextMsg, channelId, client, manager, crashes, calls, gone, order, clock, comp, dcmp, handler, responsive, torn>>

\* decompress_file up to its first await: a missing input raises, the suffix
\* decides the algorithm, an unrecognised one raises.
StartDecompress(r, path, present) ==
    IF ~present
    THEN [r EXCEPT !.pc = "done", !.result = "raised", !.compressed = path,
                   !.dec = "input_missing"]
    ELSE IF DecompressAlgorithm(path) = "none"
    THEN [r EXCEPT !.pc = "done", !.result = "raised", !.compressed = path,
                   !.dec = "unrecognised"]
    ELSE [r EXCEPT !.pc = "dl_decompress", !.compressed = path]

\* decompress_file up to its first await, for a local backup: the output
\* directory of a zip archive is made beside the backup (os.makedirs).
MadeByStart(path, present) ==
    IF present /\ DecompressAlgorithm(path) = "zip"
    THEN {StoredOutputPath(path, "zip")}
    ELSE {}

\* From the compressed file being chosen to the next await. With a callback
\* that is the report of 60; without one, decompress_file is entered.
AfterFetch(r, path, in_channel_try) ==
    IF r.sink.given
    THEN [Report(r, 60) EXCEPT !.compressed = path,
                               !.pc = IF in_channel_try THEN "dl_p60c" ELSE "dl_p60"]
    ELSE StartDecompress(r, path, TRUE)

\* What the same stretch creates under file_storage/ for a local backup.
MadeAfterFetch(r, path) ==
    IF r.sink.given THEN {} ELSE MadeByStart(path, TRUE)

\* download_media ends. It returns, and a file is at temp_download_path
\* (written now, or left there by an earlier download of the same second) or
\* none is; or it raises, having written the start of the file or nothing,
\* and the except clause logs it; or the task is cancelled while it waits,
\* with the same two possibilities. The staged path has no suffix.
DownloadMediaDone(t) ==
    LET r == task[t]
        path == r.staging
    IN  /\ r.pc = "dl_media"
        /\ CanRun(t)
        /\ \E how \in {"returned", "raised", "cancelled"}, wrote \in BOOLEAN :
             /\ responsive \/ how = "cancelled"
             /\ temps' = IF wrote THEN temps \cup {path} ELSE temps
             /\ task' = [task EXCEPT ![t] =
                           IF how = "cancelled" THEN Cancelled(r)
                           ELSE IF how = "raised"
                           THEN [r EXCEPT !.pc = "dl_local", !.fetch = "raised"]
                           ELSE IF path \in temps'
                           THEN AfterFetch([r EXCEPT !.fetch = "staged"], path, TRUE)
                           ELSE [r EXCEPT !.pc = "dl_local", !.fetch = "not_staged"]]
        /\ UNCHANGED <<metadata, disk, files, channel, nextMsg, channelId, client, manager, crashes, calls, gone, order, clock, comp, dcmp, handler, responsive, torn>>

\* The fallback, had a missing local backup been answered with None.
DownloadLocalNotFound(t) ==
    LET r == task[t]
        path == r.meta.stored_file_path
    IN  /\ r.pc = "dl_local"
        /\ task' = [task EXCEPT ![t] =
                      IF path \notin files
                      THEN [r EXCEPT !.pc = "done", !.result = "not_found", !.local = "missing",
                                     !.tried = Append(@, "local")]
                      ELSE AfterFetch([r EXCEPT !.contacted = @ \cup {"local"},
                                                !.local = "found",
                                                !.tried = Append(@, "local")], path, FALSE)]
        /\ files' = IF path \in files THEN files \cup MadeAfterFetch(r, path) ELSE files
        /\ UNCHANGED <<metadata, disk, temps, channel, nextMsg, channelId, client, manager, crashes, calls, gone, order, clock, comp, dcmp, handler, responsive, torn>>

\* The fallback: the recorded local path, which must exist.
DownloadLocal(t) ==
    LET r == task[t]
        path == r.meta.stored_file_path
    IN  /\ r.pc = "dl_local"
        /\ task' = [task EXCEPT ![t] =
                      IF path \notin files
                      THEN [r EXCEPT !.pc = "done", !.result = "raised", !.local = "missing",
                                     !.tried = Append(@, "local")]
                      ELSE AfterFetch([r EXCEPT !.contacted = @ \cup {"local"},
                                                !.local = "found",
                                                !.tried = Append(@, "local")], path, FALSE)]
        /\ files' = IF path \in files THEN files \cup MadeAfterFetch(r, path) ELSE files
        /\ UNCHANGED <<metadata, disk, temps, channel, nextMsg, channelId, client, manager, crashes, calls, gone, order, clock, comp, dcmp, handler, responsive, torn>>

\* The awaited progress_callback returns or raises and the call runs on to
\* its next await, or the task is cancelled while it is suspended in the
\* callback and the call ends there. Raising ends the call, except for the
\* report of 60 in the channel branch, whose except clause logs it. After 10
\* the branch is chosen, after 60 the callback is told 80, after 80
\* decompress_file is entered, after 100 the call returns.
ProgressReturns(t) ==
    LET r == task[t]
        value == ProgressValue(r.pc)
        local == r.compressed = r.meta.stored_file_path
        present == IF local THEN r.compressed \in files ELSE r.compressed \in temps
        raises == SinkRaises(r, value) /\ r.pc # "dl_p60c"
    IN  /\ r.pc \in ProgressPcs
        /\ CanRun(t)
        /\ \E cancelled \in BOOLEAN :
             /\ task' = [task EXCEPT ![t] =
                           IF cancelled THEN Cancelled(r)
                           ELSE IF raises THEN Sunk(r, value)
                           ELSE IF r.pc = "dl_p10" THEN DownloadDecide(r)
                           ELSE IF r.pc \in {"dl_p60c", "dl_p60"}
                           THEN [Report(r, 80) EXCEPT !.pc = "dl_p80"]
                           ELSE IF r.pc = "dl_p80"
                           THEN StartDecompress(r, r.compressed, present)
                           ELSE [r EXCEPT !.pc = "done", !.result = "ok"]]
             /\ files' = IF r.pc = "dl_p80" /\ ~cancelled /\ ~raises /\ local
                         THEN files \cup MadeByStart(r.compressed, present)
                         ELSE files
        /\ UNCHANGED <<metadata, disk, temps, channel, nextMsg, channelId, client, manager, crashes, calls, gone, order, clock, comp, dcmp, handler, responsive, torn>>

\* What a decompression job that raises can have left under file_storage/:
\* an archive zipfile rejects is rejected before anything is extracted; data
\* gzip or lzma rejects is met after the output file was opened; a failing
\* read or write can come before the output is created or after, and for a
\* zip archive the output then is the member inside the directory.
LeftByFailure(path, algorithm, rejected, created) ==
    IF rejected
    THEN (IF algorithm = "zip" THEN {} ELSE DecompressedFiles(path, algorithm))
    ELSE IF created THEN DecompressedFiles(path, algorithm)
    ELSE {}

\* Decompression, had it consumed its input as gzip -d does: the local
\* backup is gone once it has been unpacked.
DecompressDoneInPlace(t) ==
    LET r == task[t]
        algorithm == DecompressAlgorithm(r.compressed)
        local == r.compressed = r.meta.stored_file_path
    IN  /\ r.pc = "dl_decompress"
        /\ CanRun(t)
        /\ \E how \in {"ended", "cancelled"}, read_ok \in BOOLEAN, created \in BOOLEAN :
             LET bytes == IF r.compressed \in torn THEN BadData
                          ELSE Decompress(algorithm, SourceContent(r.meta.stored_file_path[4]))
             IN  IF how = "cancelled"
                 THEN \* created: the job ran; read_ok: it wrote its output
                      /\ temps' = temps
                      /\ files' = IF local /\ created
                                  THEN files \cup LeftByFailure(r.compressed, algorithm,
                                                                bytes = BadData, read_ok)
                                  ELSE files
                      /\ task' = [task EXCEPT ![t] = Cancelled(r)]
                 ELSE IF read_ok /\ bytes # BadData
                 THEN /\ temps' = temps \ {r.compressed}
                      /\ files' = IF local
                                  THEN (files \cup DecompressedFiles(r.compressed, algorithm))
                                           \ {r.compressed}
                                  ELSE files
                      /\ task' = [task EXCEPT ![t] =
                                    LET d == [r EXCEPT !.dec = "ok", !.out = bytes,
                                                       !.decompressed_path =
                                                           IF local
                                                           THEN DecompressedPath(r.compressed, algorithm)
                                                           ELSE << >>]
                                    IN  IF r.sink.given
                                        THEN [Report(d, 100) EXCEPT !.pc = "dl_p100"]
                                        ELSE [d EXCEPT !.pc = "done", !.result = "ok"]]
                 ELSE /\ temps' = temps
                      /\ files' = IF local
                                  THEN files \cup LeftByFailure(r.compressed, algorithm,
                                                                read_ok, created)
                                  ELSE files
                      /\ task' = [task EXCEPT ![t].pc = "done", ![t].result = "raised",
                                              ![t].dec = IF ~read_ok THEN "io_failed"
                                                         ELSE IF r.compressed \in torn THEN "truncated"
                                                         ELSE "bad_data"]
        /\ UNCHANGED <<metadata, disk, channel, nextMsg, channelId, client, manager, crashes, calls, gone, order, clock, comp, dcmp, handler, responsive, torn>>

\* The executor finishes decompressing: the bytes are read back with the
\* algorithm the suffix named and written beside the compressed file, the
\* staged file is removed, and the callback is told 100 or, without one, the
\* result is returned; or the job raised and the call re-raises. The start of
\* a failed copy does not decompress. Or the task is cancelled while it waits
\* for the job: the call ends there, and the job never ran (it was still
\* queued) or goes on in its thread to whatever end it has.
DecompressDone(t) ==
    LET r == task[t]
        algorithm == DecompressAlgorithm(r.compressed)
        local == r.compressed = r.meta.stored_file_path
    IN  /\ r.pc = "dl_decompress"
        /\ CanRun(t)
        /\ \E how \in {"ended", "cancelled"}, read_ok \in BOOLEAN, created \in BOOLEAN :
             LET bytes == IF r.compressed \in torn THEN BadData
                          ELSE Decompress(algorithm, SourceContent(r.meta.stored_file_path[4]))
             IN  IF how = "cancelled"
                 THEN \* created: the job ran; read_ok: it wrote its output
                      /\ temps' = temps
                      /\ files' = IF local /\ created
                                  THEN files \cup LeftByFailure(r.compressed, algorithm,
                                                                bytes = BadData, read_ok)
                                  ELSE files
                      /\ task' = [task EXCEPT ![t] = Cancelled(r)]
                 ELSE IF read_ok /\ bytes # BadData
                 THEN /\ temps' = IF local THEN temps ELSE temps \ {r.compressed}
                      /\ files' = IF local
                                  THEN files \cup DecompressedFiles(r.compressed, algorithm)
                                  ELSE files
                      /\ task' = [task EXCEPT ![t] =
                                    LET d == [r EXCEPT !.dec = "ok", !.out = bytes,
                                                       !.decompressed_path =
                                                           IF local
                                                           THEN DecompressedPath(r.compressed, algorithm)
                                                           ELSE << >>]
                                    IN  IF r.sink.given
                                        THEN [Report(d, 100) EXCEPT !.pc = "dl_p100"]
                                        ELSE [d EXCEPT !.pc = "done", !.result = "ok"]]
                 ELSE /\ temps' = temps
                      /\ files' = IF local
                                  THEN files \cup LeftByFailure(r.compressed, algorithm,
                                                                read_ok, created)
                                  ELSE files
                      /\ task' = [task EXCEPT ![t].pc = "done", ![t].result = "raised",
                                              ![t].dec = IF ~read_ok THEN "io_failed"
                                                         ELSE IF r.compressed \in torn THEN "truncated"
                                                         ELSE "bad_data"]
        /\ UNCHANGED <<metadata, disk, channel, nextMsg, channelId, client, manager, crashes, calls, gone, order, clock, comp, dcmp, handler, responsive, torn>>

\* download_command after download_and_decompress returned a path: the file
\* is sent to the user and then removed (os.remove, errors ignored); when
\* sending raises, the except clause reports it and the file stays.
DownloadCommandCleanup(t) ==
    LET r == task[t]
    IN  /\ r.op = "download"
        /\ r.pc = "done"
        /\ r.result = "ok"
        /\ r.cleanup = "-"
        /\ CanRun(t)
        /\ \E sent \in BOOLEAN, rm_ok \in BOOLEAN :
             /\ files' = IF sent /\ rm_ok THEN files \ {r.decompressed_path} ELSE files
             /\ task' = [task EXCEPT ![t].cleanup =
                           IF ~sent THEN "not_sent"
                           ELSE IF rm_ok /\ r.decompressed_path \in files THEN "removed"
                           ELSE "kept"]
        /\ UNCHANGED <<metadata, disk, temps, channel, nextMsg, channelId, client, manager, crashes, calls, gone, order, clock, comp, dcmp, handler, responsive, torn>>

\* ------------------------------------------------------------------- list
\* list_user_files: no await inside, so the call runs from start to end.
ListUserFilesCall(t, user_id) ==
    /\ FreeSlot(t)
    /\ CanRun(t)
    /\ calls < MaxCalls
    /\ calls' = calls + 1
    /\ task' = [task EXCEPT ![t] =
                  [Idle EXCEPT !.op = "list", !.user_id = user_id, !.pc = "done",
                               !.result = "ok",
                               !.listing = ListUserFilesSorted(metadata, order, user_id)]]
    /\ UNCHANGED <<metadata, disk, files, temps, channel, nextMsg, channelId, client, manager, crashes, gone, order, clock, comp, dcmp, handler, responsive, torn>>

\* ------------------------------------------------------------------ process
\* Time passes.
Tick ==
    /\ LoopIdle
    /\ clock < MaxTime
    /\ clock' = clock + 1
    /\ UNCHANGED <<metadata, disk, files, temps, channel, nextMsg, channelId, client, manager, task, crashes, calls, gone, order, comp, dcmp, handler, responsive, torn>>

\* The channel backend stops answering: requests already sent and requests
\* sent from now on get no reply. No await in storage.py has a timeout.
BackendStops ==
    /\ responsive
    /\ responsive' = FALSE
    /\ UNCHANGED <<metadata, disk, files, temps, channel, nextMsg, channelId, client, manager, task, crashes, calls, gone, order, clock, comp, dcmp, handler, torn>>

\* The process dies at any point and is started again: __init__ loads the
\* index from the file; every call in flight is gone.
Crash ==
    /\ crashes < MaxCrashes
    /\ crashes' = crashes + 1
    /\ metadata' = LoadMetadata(disk)
    /\ order' = LoadOrder(disk)
    /\ client' = FALSE
    /\ manager' = "none"
    /\ task' = [t \in Tasks |-> Idle]
    /\ UNCHANGED <<disk, files, temps, channel, nextMsg, channelId, calls, gone, clock, comp, dcmp, handler, responsive, torn>>

\* ---------------------------------------------------------------- compress
\* Names of the temp files the handler downloads what users send to.
InputPaths == {"temp", "temp_b"}

\* Algorithm names a caller can pass: the supported ones and one that is not.
AlgorithmNames == SupportedAlgorithms \cup {"rar"}

\* The file at input_path, as a path in TEMP_DIR.
InputFile(input_path) == <<input_path>>

\* handle_file_upload downloads the file the user sent to temp_path.
ReceiveFile(input_path) ==
    /\ comp.pc # "writing"
    /\ InputFile(input_path) \notin temps
    /\ temps' = temps \cup {InputFile(input_path)}
    /\ UNCHANGED <<metadata, disk, files, channel, nextMsg, channelId, client, manager, task, crashes, calls, gone, order, clock, comp, dcmp, handler, responsive, torn>>

\* compress_file is entered: an unsupported algorithm and a missing input are
\* rejected; otherwise the output path is made and the work goes to the executor.
CompressCall(input_path, algorithm) ==
    LET c == [NoCompress EXCEPT !.input_path = input_path, !.algorithm = algorithm]
    IN  /\ comp.pc # "writing"
        /\ calls < MaxCalls
        /\ calls' = calls + 1
        /\ comp' = IF algorithm \notin SupportedAlgorithms
                   THEN [c EXCEPT !.pc = "done", !.result = "raised", !.why = "unsupported"]
                   ELSE IF InputFile(input_path) \notin temps
                   THEN [c EXCEPT !.pc = "done", !.result = "raised", !.why = "missing"]
                   ELSE [c EXCEPT !.pc = "writing"]
        /\ UNCHANGED <<metadata, disk, files, temps, channel, nextMsg, channelId, client, manager, task, crashes, gone, order, clock, dcmp, handler, responsive, torn>>

\* The executor job ends. It wrote the whole output; or it raised, before or
\* after creating the output file, and the except clause removes the file at
\* the output path if there is one, swallowing a failure of os.remove; or the
\* awaiting task was cancelled, which except Exception does not catch: the
\* job, if still queued, is cancelled with it and never runs, and one that is
\* running goes on writing in its thread.
CompressExecutorDone ==
    LET output_path == CompressOutputPath(comp.input_path, comp.algorithm)
    IN  /\ comp.pc = "writing"
        /\ \E how \in {"written", "raised", "cancelled"}, created \in BOOLEAN, rm_ok \in BOOLEAN :
             CASE how = "written" ->
                    /\ temps' = temps \cup {output_path}
                    /\ comp' = [comp EXCEPT !.pc = "done", !.result = "ok", !.created = TRUE]
               [] how = "cancelled" ->
                    /\ temps' = IF created THEN temps \cup {output_path} ELSE temps
                    /\ comp' = [comp EXCEPT !.pc = "done", !.result = "cancelled",
                                            !.why = "cancelled", !.created = created]
               [] how = "raised" ->
                    LET there == created \/ output_path \in temps
                    IN  /\ temps' = IF there /\ ~rm_ok THEN temps \cup {output_path}
                                    ELSE temps \ {output_path}
                        /\ comp' = [comp EXCEPT !.pc = "done", !.result = "raised",
                                                !.why = "write", !.created = created,
                                                !.cleanup = IF ~there THEN "nothing"
                                                            ELSE IF rm_ok THEN "removed"
                                                            ELSE "failed"]
        /\ UNCHANGED <<metadata, disk, files, channel, nextMsg, channelId, client, manager, task, crashes, calls, gone, order, clock, dcmp, handler, responsive, torn>>

\* -------------------------------------------------------------- decompress
\* Ends of file names that compress_file does not produce: the short forms
\* decompress_file also accepts, and ones it does not know.
OtherSuffixes == {".gz", ".xz", ".rar", ".ZIP"}

\* Files of TEMP_DIR that did not come out of compress_file: one per other
\* suffix.
OtherFiles == {<<"temp", x>> : x \in OtherSuffixes}

\* The paths decompress_file is called with: what compress_file writes, the
\* other files, and the plain temp files, which have no suffix.
DecompressPaths ==
    {CompressOutputPath(p, a) : p \in InputPaths, a \in SupportedAlgorithms}
        \cup OtherFiles \cup {InputFile(p) : p \in InputPaths}

\* A file that compress_file did not write comes to be in TEMP_DIR.
PlaceFile(path) ==
    /\ dcmp.pc # "reading"
    /\ comp.pc # "writing"
    /\ path \notin temps
    /\ temps' = temps \cup {path}
    /\ UNCHANGED <<metadata, disk, files, channel, nextMsg, channelId, client, manager, task, crashes, calls, gone, order, clock, comp, dcmp, handler, responsive, torn>>

\* decompress_file is entered: a missing input is rejected, then a path whose
\* end names no algorithm; for zip the output directory is made; the work goes
\* to the executor.
DecompressCall(input_path) ==
    LET algorithm == DecompressAlgorithm(input_path)
        output_path == DecompressOutputPath(input_path, algorithm)
        d == [NoDecompress EXCEPT !.input_path = input_path]
    IN  /\ dcmp.pc # "reading"
        /\ comp.pc # "writing"
        /\ calls < MaxCalls
        /\ calls' = calls + 1
        /\ IF input_path \notin temps
           THEN /\ dcmp' = [d EXCEPT !.pc = "done", !.result = "raised", !.why = "missing"]
                /\ temps' = temps
           ELSE IF algorithm = "none"
           THEN /\ dcmp' = [d EXCEPT !.pc = "done", !.result = "raised", !.why = "unrecognised"]
                /\ temps' = temps
           ELSE /\ dcmp' = [d EXCEPT !.pc = "reading", !.algorithm = algorithm,
                                     !.output_path = output_path,
                                     !.made = IF algorithm = "zip" THEN {output_path} ELSE {}]
                /\ temps' = IF algorithm = "zip" THEN temps \cup {output_path} ELSE temps
        /\ UNCHANGED <<metadata, disk, files, channel, nextMsg, channelId, client, manager, task, crashes, gone, order, clock, comp, handler, responsive, torn>>

\* The executor job of decompress_file ends: the output is written (for a zip
\* archive, its member inside the output directory), or the library rejects
\* the data or the write fails, after creating the output file or before; or
\* the awaiting task is cancelled, and the job never ran or goes on in its
\* thread.
DecompressExecutorDone ==
    /\ dcmp.pc = "reading"
    /\ \E how \in {"written", "raised", "cancelled"}, created \in BOOLEAN :
         LET whole == IF dcmp.algorithm = "zip"
                      THEN {dcmp.output_path, Append(dcmp.output_path, dcmp.input_path[1])}
                      ELSE {dcmp.output_path}
             out == IF how = "written" \/ created THEN whole ELSE {}
         IN  /\ temps' = temps \cup out
             /\ dcmp' = [dcmp EXCEPT !.pc = "done",
                                     !.result = IF how = "written" THEN "ok"
                                                ELSE IF how = "raised" THEN "raised"
                                                ELSE "cancelled",
                                     !.why = IF how = "written" THEN "-"
                                             ELSE IF how = "raised" THEN "read"
                                             ELSE "cancelled",
                                     !.made = @ \cup out]
    /\ UNCHANGED <<metadata, disk, files, channel, nextMsg, channelId, client, manager, task, crashes, calls, gone, order, clock, comp, handler, responsive, torn>>

\* ----------------------------------------------------------------- handler
\* Sizes are counted in units of 2^30 bytes.
\* config.MAX_FILE_SIZE, 4294967296 bytes unless the environment sets it.
MAX_FILE_SIZE == 4

\* file_obj.file_size of the files users send.
FileSizes == {0, 2, 4, 5}

\* os.path.getsize(compressed_path): a compressed file is never empty, and
\* can be larger than the file it was made from.
CompressedSizes == {1, 2, 5}

\* config.DEFAULT_COMPRESSION
DefaultCompression == "zip"

\* get_compression_info, the 'compression_ratio' it computes: the reduction in
\* percent, negative when the compressed file is the larger one.
CompressionInfoRatio(original_size, compressed_size) ==
    IF original_size = 0 THEN 0
    ELSE 100 - (compressed_size * 100) \div original_size

\* calculate_compression_ratio: the reduction in percent, and 0 when that
\* would be negative.
CalculateCompressionRatio(original_size, compressed_size) ==
    IF original_size = 0 THEN 0
    ELSE LET reduction == ((original_size - compressed_size) * 100) \div original_size
         IN  IF reduction > 0 THEN reduction ELSE 0

\* The check of the file size, had it turned away the limit itself.
FileTooLargeAtLimit(file_size) == file_size >= MAX_FILE_SIZE

\* if file_obj.file_size > self.config.MAX_FILE_SIZE
FileTooLarge(file_size) == file_size > MAX_FILE_SIZE

\* if file_obj.file_size < 20 * 1024 * 1024: the Bot API fetches the file,
\* else Telethon does. 20 MB is less than one unit of size.
ViaBotApi(file_size) == file_size < 1

\* self.user_settings[user_id]['compression'] as /compress has set it to a
\* supported algorithm, or no setting of the user.
UserSettings == SupportedAlgorithms \cup {"-"}

\* self.user_settings.get(user_id, {}).get('compression', DEFAULT_COMPRESSION)
UserCompression(setting) == IF setting = "-" THEN DefaultCompression ELSE setting

\* The descriptor bag handle_file_upload passes to upload_file; the algorithm
\* is the one the user has set with /compress, or the configured default.
HandlerDescriptor(h) ==
    [ original_name |-> "a.txt", original_size |-> h.file_size,
      compressed_size |-> h.compressed_size, compression_algo |-> h.compression_algo,
      compression_ratio |-> h.compression_ratio, file_type |-> "document" ]

\* temp_path of the handler, and the compressed_path compress_file returns
\* for it with the user's algorithm.
HandlerTempPath == InputFile("temp")
HandlerCompressedPath(compression_algo) == CompressOutputPath("temp", compression_algo)

\* The handler enters its except clause with the temp directory as it is now
\* and the paths it has named so far (temp_path is not named when get_file
\* raised, compressed_path not before compress_file returned). The clause
\* begins by awaiting edit_text with the failure report.
HandlerExcept(why, now, known, wrote, made) ==
    /\ temps' = now
    /\ handler' = [handler EXCEPT !.pc = "except", !.why = why, !.known = known,
                                  !.fetched = wrote, !.compressed = made]

\* The handler's task is cancelled while it waits: CancelledError passes the
\* except clause, nothing is reported and nothing is cleaned up.
HandlerCancelled(now, wrote, made, stored) ==
    /\ temps' = now
    /\ handler' = [handler EXCEPT !.pc = "done", !.result = "cancelled",
                                  !.why = "cancelled", !.fetched = wrote,
                                  !.compressed = made, !.stored = stored]

\* handle_file_upload is entered with a file of file_size. Too large a file
\* is answered with reply_text; for any other the progress message is sent
\* with reply_text. Both are awaited outside the try. A run of the handler
\* counts for two calls: its own and the upload_file call it can make.
HandleFileUpload(user_id, file_size) ==
    /\ handler.pc \in {"idle", "done"}
    /\ LoopIdle
    /\ \A t \in Tasks : task[t].pc \in {"idle", "done"}
    /\ calls + 2 <= MaxCalls
    /\ calls' = calls + 2
    /\ handler' = [NoHandler EXCEPT !.pc = IF FileTooLarge(file_size) THEN "reject_reply"
                                           ELSE "progress_reply",
                                    !.file_size = file_size, !.user_id = user_id,
                                    !.why = IF FileTooLarge(file_size) THEN "too_large" ELSE "-"]
    /\ UNCHANGED <<metadata, disk, files, temps, channel, nextMsg, channelId, client, manager, task, crashes, gone, order, clock, comp, dcmp, responsive, torn>>

\* reply_text ends. The rejection was sent and the handler returns, or the
\* progress message was sent and the handler goes on to fetch the file; or
\* reply_text raised, which nothing in the handler catches; or the task is
\* cancelled while it waits.
HandlerReplyDone ==
    /\ handler.pc \in {"reject_reply", "progress_reply"}
    /\ LoopIdle
    /\ \E how \in {"replied", "raised", "cancelled"} :
         handler' = IF how = "replied"
                    THEN IF handler.pc = "reject_reply"
                         THEN [handler EXCEPT !.pc = "done", !.result = "rejected"]
                         ELSE [handler EXCEPT !.pc = "fetch"]
                    ELSE [handler EXCEPT !.pc = "done", !.result = how]
    /\ UNCHANGED <<metadata, disk, files, temps, channel, nextMsg, channelId, client, manager, task, crashes, calls, gone, order, clock, comp, dcmp, responsive, torn>>

\* get_file (Bot API) or get_messages (Telethon) ends: it answers and the
\* download is started; or it raised and the except clause takes over, with
\* temp_path named only on the Telethon side, where it is assigned first; or
\* the task is cancelled while it waits. Nothing is written yet.
HandlerGetFileDone ==
    /\ handler.pc = "fetch"
    /\ LoopIdle
    /\ \E how \in {"answered", "raised", "cancelled"} :
         CASE how = "answered" ->
                /\ temps' = temps
                /\ handler' = [handler EXCEPT !.pc = "download"]
           [] how = "raised" ->
                HandlerExcept("fetch", temps,
                              IF ViaBotApi(handler.file_size) THEN {} ELSE {HandlerTempPath},
                              FALSE, FALSE)
           [] how = "cancelled" ->
                HandlerCancelled(temps, FALSE, FALSE, FALSE)
    /\ UNCHANGED <<metadata, disk, files, channel, nextMsg, channelId, client, manager, task, crashes, calls, gone, order, clock, comp, dcmp, responsive, torn>>

\* download_to_drive or download_media ends. The file is at temp_path and the
\* handler goes on to edit the progress message (Telethon's download_media
\* can also return having written nothing); or the download raised, with the
\* file (or its start) written by then or nothing written, and the except
\* clause takes over; or the task is cancelled while it waits.
HandlerDownloadDone ==
    /\ handler.pc = "download"
    /\ LoopIdle
    /\ \E how \in {"downloaded", "raised", "cancelled"}, wrote \in BOOLEAN :
         LET now == IF wrote THEN temps \cup {HandlerTempPath} ELSE temps
         IN  CASE how = "downloaded" ->
                    /\ ViaBotApi(handler.file_size) => wrote
                    /\ temps' = now
                    /\ handler' = [handler EXCEPT !.pc = "fetch_edit", !.fetched = wrote]
               [] how = "raised" ->
                    HandlerExcept("fetch", now, {HandlerTempPath}, wrote, FALSE)
               [] how = "cancelled" ->
                    HandlerCancelled(now, wrote, FALSE, FALSE)
    /\ UNCHANGED <<metadata, disk, files, channel, nextMsg, channelId, client, manager, task, crashes, calls, gone, order, clock, comp, dcmp, responsive, torn>>

\* The edit_text that announces the compression ends. The user's algorithm
\* is read and compress_file is called; or the edit raised and the except
\* clause takes over; or the task is cancelled while it waits.
HandlerFetchDone ==
    /\ handler.pc = "fetch_edit"
    /\ LoopIdle
    /\ \E how \in {"edited", "raised", "cancelled"}, setting \in UserSettings :
         CASE how = "edited" ->
                /\ temps' = temps
                /\ handler' = [handler EXCEPT !.pc = "compress",
                                              !.compression_algo = UserCompression(setting)]
           [] how = "raised" ->
                HandlerExcept("fetch", temps, {HandlerTempPath}, handler.fetched, FALSE)
           [] how = "cancelled" ->
                HandlerCancelled(temps, handler.fetched, FALSE, FALSE)
    /\ UNCHANGED <<metadata, disk, files, channel, nextMsg, channelId, client, manager, task, crashes, calls, gone, order, clock, comp, dcmp, responsive, torn>>

\* compress_file ends. It returns with the output written, the sizes are
\* compared and the handler goes on to edit the progress message; or it
\* raised, at once when temp_path is not there, else with its own cleanup
\* having removed the output or failed to, and the except clause knows
\* temp_path only; or the task is cancelled while it waits, the output
\* written by then or not.
HandlerCompressDone ==
    /\ handler.pc = "compress"
    /\ LoopIdle
    /\ \E how \in {"compressed", "raised", "cancelled"},
          compressed_size \in CompressedSizes, created \in BOOLEAN, rm_ok \in BOOLEAN :
         LET compressed_path == HandlerCompressedPath(handler.compression_algo)
             input_there == HandlerTempPath \in temps
             plus == temps \cup {compressed_path}
             there == created \/ compressed_path \in temps
             left == IF ~input_there THEN temps
                     ELSE IF there /\ ~rm_ok THEN plus
                     ELSE temps \ {compressed_path}
         IN  CASE how = "compressed" ->
                    /\ input_there
                    /\ temps' = plus
                    /\ handler' = [handler EXCEPT !.pc = "compress_edit", !.compressed = TRUE,
                                       !.compressed_size = compressed_size,
                                       !.compression_ratio =
                                           CalculateCompressionRatio(handler.file_size, compressed_size)]
               [] how = "raised" ->
                    HandlerExcept("compress", left, {HandlerTempPath}, handler.fetched,
                                  compressed_path \in left)
               [] how = "cancelled" ->
                    /\ input_there
                    /\ HandlerCancelled(IF created THEN plus ELSE temps, handler.fetched,
                                        created, FALSE)
    /\ UNCHANGED <<metadata, disk, files, channel, nextMsg, channelId, client, manager, task, crashes, calls, gone, order, clock, comp, dcmp, responsive, torn>>

\* The edit_text that announces the upload ends: the handler goes on to
\* upload_file; or the edit raised and the except clause, which knows both
\* paths, takes over; or the task is cancelled while it waits.
HandlerCompressEditDone ==
    /\ handler.pc = "compress_edit"
    /\ LoopIdle
    /\ \E how \in {"edited", "raised", "cancelled"} :
         CASE how = "edited" ->
                /\ temps' = temps
                /\ handler' = [handler EXCEPT !.pc = "upload"]
           [] how = "raised" ->
                HandlerExcept("compress", temps,
                              {HandlerTempPath, HandlerCompressedPath(handler.compression_algo)},
                              handler.fetched, TRUE)
           [] how = "cancelled" ->
                HandlerCancelled(temps, handler.fetched, TRUE, FALSE)
    /\ UNCHANGED <<metadata, disk, files, channel, nextMsg, channelId, client, manager, task, crashes, calls, gone, order, clock, comp, dcmp, responsive, torn>>

\* generate_file_id and the call of storage_manager.upload_file with the
\* compressed file and the descriptor bag: upload_file is entered as in
\* UploadCall, as a part of the handler's run.
HandlerUpload ==
    /\ handler.pc = "upload"
    /\ \E t \in Tasks, file_id \in FileIds :
         /\ FreeSlot(t)
         /\ CanRun(t)
         /\ task' = [task EXCEPT ![t] =
                       UploadEntered(file_id, handler.user_id,
                                     HandlerCompressedPath(handler.compression_algo),
                                     HandlerDescriptor(handler))]
         /\ handler' = [handler EXCEPT !.pc = "uploading", !.slot = t]
    /\ UNCHANGED <<metadata, disk, files, temps, channel, nextMsg, channelId, client, manager, crashes, calls, gone, order, clock, comp, dcmp, responsive, torn>>

\* upload_file has ended. It returned and the success message is sent, then
\* each temp file that exists is removed, a failure of os.remove swallowed;
\* or the success message cannot be sent, or upload_file raised, and the
\* except clause takes over; or upload_file was cancelled, or the task is
\* cancelled while the success message is sent, and the handler ends there.
HandlerReturn ==
    /\ handler.pc = "uploading"
    /\ task[handler.slot].op = "upload"
    /\ task[handler.slot].pc = "done"
    /\ LoopIdle
    /\ LET both == {HandlerTempPath, HandlerCompressedPath(handler.compression_algo)}
           call == task[handler.slot]
           h == [handler EXCEPT !.file_id = call.file_id]
       IN  \E how \in {"replied", "edit_raised", "cancelled"}, removed \in SUBSET (both \cap temps) :
             CASE call.result = "cancelled" ->
                    /\ temps' = temps
                    /\ handler' = [h EXCEPT !.pc = "done", !.result = "cancelled",
                                            !.why = "cancelled"]
               [] call.result = "raised" ->
                    /\ temps' = temps
                    /\ handler' = [h EXCEPT !.pc = "except", !.why = "upload", !.known = both]
               [] call.result = "ok" /\ how = "replied" ->
                    /\ temps' = temps \ removed
                    /\ handler' = [h EXCEPT !.pc = "done", !.result = "ok", !.stored = TRUE]
               [] call.result = "ok" /\ how = "edit_raised" ->
                    /\ temps' = temps
                    /\ handler' = [h EXCEPT !.pc = "except", !.why = "reply", !.known = both,
                                            !.stored = TRUE]
               [] call.result = "ok" /\ how = "cancelled" ->
                    /\ temps' = temps
                    /\ handler' = [h EXCEPT !.pc = "done", !.result = "cancelled",
                                            !.why = "cancelled", !.stored = TRUE]
    /\ UNCHANGED <<metadata, disk, files, channel, nextMsg, channelId, client, manager, task, crashes, calls, gone, order, clock, comp, dcmp, responsive, torn>>

\* The edit_text of the except clause ends. The failure was reported and each
\* named path that exists is removed, a failure of os.remove swallowed, so
\* any part of them may stay; or edit_text raised and the handler ends
\* raising, nothing cleaned up; or the task is cancelled while it waits, and
\* nothing is cleaned up either.
HandlerExceptDone ==
    /\ handler.pc = "except"
    /\ LoopIdle
    /\ \E how \in {"reported", "raised", "cancelled"}, removed \in SUBSET (handler.known \cap temps) :
         /\ temps' = IF how = "reported" THEN temps \ removed ELSE temps
         /\ handler' = [handler EXCEPT !.pc = "done",
                                       !.result = IF how = "reported" THEN "failed" ELSE how]
    /\ UNCHANGED <<metadata, disk, files, channel, nextMsg, channelId, client, manager, task, crashes, calls, gone, order, clock, comp, dcmp, responsive, torn>>

Next ==
    \/ SetTelethonClient
    \/ Initialize
    \/ \E t \in Tasks, f \in FileIds, u \in Owners, p \in SourcePaths, d \in HandlerDescriptors :
         UploadCall(t, f, u, p, d)
    \/ \E t \in Tasks : UploadSendDone(t)
    \/ \E t \in Tasks : UploadCopy(t)
    \/ \E t \in Tasks : SaveOpen(t)
    \/ \E t \in Tasks : SaveDump(t)
    \/ \E t \in Tasks, f \in FileIds, u \in Owners : DeleteCall(t, f, u)
    \/ \E t \in Tasks : DeleteLocal(t)
    \/ \E t \in Tasks : DeleteMsgDone(t)
    \/ \E t \in Tasks : DeleteIndex(t)
    \/ \E t \in Tasks, f \in FileIds, u \in Owners : DownloadCall(t, f, u, NoSink)
    \/ \E t \in Tasks : DownloadGetDone(t)
    \/ \E t \in Tasks : DownloadMediaDone(t)
    \/ \E t \in Tasks : DownloadLocal(t)
    \/ \E t \in Tasks : DecompressDone(t)
    \/ \E t \in Tasks : DownloadCommandCleanup(t)
    \/ Crash

Spec == Init /\ [][Next]_vars

\* The same program started on what an earlier run left behind.
SpecStored == InitStored /\ [][Next]_vars

\* Uploads only: the calls of the no-lost-update scenario, with the setup
\* steps and every channel and disk outcome.
NextUploads ==
    \/ SetTelethonClient
    \/ Initialize
    \/ \E t \in Tasks, f \in FileIds, u \in Owners, p \in SourcePaths, d \in HandlerDescriptors :
         UploadCall(t, f, u, p, d)
    \/ \E t \in Tasks : UploadSendDone(t)
    \/ \E t \in Tasks : UploadCopy(t)
    \/ \E t \in Tasks : SaveOpen(t)
    \/ \E t \in Tasks : SaveDump(t)

SpecUploads == Init /\ [][NextUploads]_vars

\* The compression step of the upload handler on its own.
NextCompress ==
    \/ \E p \in InputPaths : ReceiveFile(p)
    \/ \E p \in InputPaths, a \in AlgorithmNames : CompressCall(p, a)
    \/ CompressExecutorDone

SpecCompress == Init /\ [][NextCompress]_vars

\* compress_file and decompress_file called one after the other on the files
\* of TEMP_DIR.
NextDecompress ==
    \/ \E p \in InputPaths : ReceiveFile(p)
    \/ \E p \in InputPaths, a \in AlgorithmNames : CompressCall(p, a)
    \/ CompressExecutorDone
    \/ \E path \in OtherFiles : PlaceFile(path)
    \/ \E path \in DecompressPaths : DecompressCall(path)
    \/ DecompressExecutorDone

SpecDecompress == Init /\ [][NextDecompress]_vars

\* The upload handler from the file a user sends to the stored record.
NextHandler ==
    \/ SetTelethonClient
    \/ Initialize
    \/ \E u \in Owners, size \in FileSizes : HandleFileUpload(u, size)
    \/ HandlerReplyDone
    \/ HandlerGetFileDone
    \/ HandlerDownloadDone
    \/ HandlerFetchDone
    \/ HandlerCompressDone
    \/ HandlerCompressEditDone
    \/ HandlerUpload
    \/ \E t \in Tasks : UploadSendDone(t)
    \/ \E t \in Tasks : UploadCopy(t)
    \/ \E t \in Tasks : SaveOpen(t)
    \/ \E t \in Tasks : SaveDump(t)
    \/ HandlerReturn
    \/ HandlerExceptDone

SpecHandler == Init /\ [][NextHandler]_vars

\* The storage calls with a channel backend that can stop answering.
NextHang ==
    \/ SetTelethonClient
    \/ Initialize
    \/ \E t \in Tasks, f \in FileIds, u \in Owners, p \in SourcePaths, d \in HandlerDescriptors :
         UploadCall(t, f, u, p, d)
    \/ \E t \in Tasks : UploadSendDone(t)
    \/ \E t \in Tasks : UploadCopy(t)
    \/ \E t \in Tasks : SaveOpen(t)
    \/ \E t \in Tasks : SaveDump(t)
    \/ \E t \in Tasks, f \in FileIds, u \in Owners : DeleteCall(t, f, u)
    \/ \E t \in Tasks : DeleteLocal(t)
    \/ \E t \in Tasks : DeleteMsgDone(t)
    \/ \E t \in Tasks : DeleteIndex(t)
    \/ \E t \in Tasks, f \in FileIds, u \in Owners : DownloadCall(t, f, u, NoSink)
    \/ \E t \in Tasks : DownloadGetDone(t)
    \/ \E t \in Tasks : DownloadMediaDone(t)
    \/ \E t \in Tasks : DownloadLocal(t)
    \/ \E t \in Tasks : DecompressDone(t)
    \/ BackendStops

\* Fair scheduling: the event loop runs every task that can go on, executor
\* jobs finish, and a backend that answers does so in the end. Nothing makes
\* a cancellation arrive.
FairSteps ==
    \A t \in Tasks :
        /\ WF_vars(responsive /\ UploadSendDone(t))
        /\ WF_vars(UploadCopy(t))
        /\ WF_vars(SaveOpen(t))
        /\ WF_vars(SaveDump(t))
        /\ WF_vars(DeleteLocal(t))
        /\ WF_vars(responsive /\ DeleteMsgDone(t))
        /\ WF_vars(DeleteIndex(t))
        /\ WF_vars(responsive /\ DownloadGetDone(t))
        /\ WF_vars(responsive /\ DownloadMediaDone(t))
        /\ WF_vars(DownloadLocal(t))
        /\ WF_vars(DecompressDone(t))

SpecHang == InitStored /\ [][NextHang]_vars /\ FairSteps

\* Downloads with a progress callback, and deletes running beside them, of
\* what an earlier run stored.
NextProgress ==
    \/ SetTelethonClient
    \/ Tick
    \/ \E t \in Tasks, f \in FileIds, u \in Owners, sink \in Sinks : DownloadCall(t, f, u, sink)
    \/ \E t \in Tasks : DownloadGetDone(t)
    \/ \E t \in Tasks : DownloadMediaDone(t)
    \/ \E t \in Tasks : DownloadLocal(t)
    \/ \E t \in Tasks : DecompressDone(t)
    \/ \E t \in Tasks : ProgressReturns(t)
    \/ \E t \in Tasks : DownloadCommandCleanup(t)
    \/ \E t \in Tasks, f \in FileIds, u \in Owners : DeleteCall(t, f, u)
    \/ \E t \in Tasks : DeleteLocal(t)
    \/ \E t \in Tasks : DeleteMsgDone(t)
    \/ \E t \in Tasks : DeleteIndex(t)
    \/ \E t \in Tasks : SaveOpen(t)
    \/ \E t \in Tasks : SaveDump(t)

SpecProgress == InitStored /\ [][NextProgress]_vars

\* Uploads whose file ids may repeat and whose metadata dicts may name the
\* record's own fields, by a manager that has no channel.
NextReuse ==
    \/ \E t \in Tasks, f \in FileIds, u \in Owners, p \in SourcePaths, d \in CallerDescriptors :
         UploadCall(t, f, u, p, d)
    \/ \E t \in Tasks : UploadCopy(t)
    \/ \E t \in Tasks : SaveOpen(t)
    \/ \E t \in Tasks : SaveDump(t)

SpecReuse == Init /\ [][NextReuse]_vars

\* The calls that only read: downloads and listings of what an earlier run
\* stored.
NextReads ==
    \/ SetTelethonClient
    \/ \E t \in Tasks, f \in FileIds, u \in Owners : DownloadCall(t, f, u, NoSink)
    \/ \E t \in Tasks : DownloadGetDone(t)
    \/ \E t \in Tasks : DownloadMediaDone(t)
    \/ \E t \in Tasks : DownloadLocal(t)
    \/ \E t \in Tasks : DecompressDone(t)
    \/ \E t \in Tasks : DownloadCommandCleanup(t)
    \/ \E t \in Tasks, u \in Owners : ListUserFilesCall(t, u)

SpecReads == InitStored /\ [][NextReads]_vars

\* ------------------------------------------------------------------ claims
Uploads == {t \in Tasks : task[t].op = "upload"}
Downloads == {t \in Tasks : task[t].op = "download"}
Deletes == {t \in Tasks : task[t].op = "delete"}
ChannelFailures == {"no_manager", "not_initialized", "returned_none", "raised"}

\* C1: a download by an owner other than the record's owner ends at once with
\* not-found and has contacted no backend, exactly like a download of a file
\* id the index does not hold; and the lookup of any stored record under any
\* other owner finds nothing.
C1_OwnerIsolation ==
    /\ \A t \in Downloads :
         task[t].seen \in {"absent", "other"} =>
            /\ task[t].pc = "done"
            /\ task[t].result = "not_found"
            /\ task[t].contacted = {}
    /\ \A f \in DOMAIN metadata : \A b \in Owners :
         b # metadata[f].user_id => GetFileMetadata(metadata, f, b) = NoMeta

C1_Witness ==
    \E t \in Downloads :
        /\ task[t].seen = "other"
        /\ task[t].pc = "done"
        /\ task[t].file_id \in DOMAIN metadata

\* C2 (as claimed): an upload whose local copy failed has raised, and the
\* index holds no record under its file id, so the owner's listing does not
\* hold it.
C2_CopyFailureNoRecord ==
    \A t \in Uploads :
        task[t].copy = "failed" =>
            /\ task[t].pc = "done"
            /\ task[t].result = "raised"
            /\ task[t].file_id \notin DOMAIN metadata
            /\ task[t].file_id \notin ListUserFiles(metadata, task[t].user_id)

\* C2: the step in which the local copy of an upload fails ends the call by
\* raising and leaves the index, in memory and on disk, as it was: the call
\* adds no record and changes none, whatever the channel attempt did, so
\* every owner's listing is what it was before.
C2_CopyFailureAddsNoRecord ==
    [][\A t \in Tasks :
          (task'[t].op = "upload" /\ task'[t].copy = "failed" /\ task[t].copy # "failed") =>
              /\ task'[t].pc = "done"
              /\ task'[t].result = "raised"
              /\ metadata' = metadata
              /\ order' = order
              /\ disk' = disk
              /\ \A u \in Owners :
                   ListUserFilesSorted(metadata', order', u) = ListUserFilesSorted(metadata, order, u)]_vars

C2_Witness ==
    \E t \in Uploads :
        /\ task[t].copy = "failed"
        /\ task[t].chan = "ok"
        /\ task[t].telegram_message_id \in channel

\* C3: whichever way the channel attempt failed, the upload went on to the
\* local copy; when the copy succeeded the record stored is of storage type
\* local, and the call returns the local path.
C3_ChannelFailureIsLocal ==
    \A t \in Uploads :
        task[t].chan \in ChannelFailures =>
            /\ task[t].pc = "done" => task[t].copy \in {"ok", "failed"}
            /\ task[t].copy = "ok" =>
                 /\ task[t].meta.storage_type = "local"
                 /\ task[t].meta.public_link = task[t].meta.stored_file_path
                 /\ task[t].pc \in {"save_open", "save_dump"} =>
                      /\ task[t].file_id \in DOMAIN metadata
                      /\ metadata[task[t].file_id] = task[t].meta
                 /\ task[t].pc = "done" =>
                      /\ task[t].result = "ok"
                      /\ task[t].ret = task[t].meta.stored_file_path

C3_Witness ==
    \E t \in Uploads :
        /\ task[t].chan = "returned_none"
        /\ task[t].pc = "done"
        /\ task[t].result = "ok"
        /\ task[t].file_id \in DOMAIN metadata

\* C4 (as claimed): an upload whose flush of the index failed has raised and
\* left no record for its file id in the index.
C4_FlushFailurePropagates ==
    \A t \in Uploads :
        (task[t].pc = "done" /\ task[t].flush = "failed") =>
            /\ task[t].result = "raised"
            /\ task[t].file_id \notin DOMAIN metadata

\* Two uploads of different file ids by one owner whose local copies
\* succeeded have both succeeded and both file ids are in the index, and in
\* the durable file when both flushes succeeded and the file is whole.
BothUploadsStored ==
    \A t1 \in Uploads : \A t2 \in Uploads :
        ( /\ t1 # t2
          /\ task[t1].user_id = task[t2].user_id
          /\ task[t1].file_id # task[t2].file_id
          /\ task[t1].pc = "done" /\ task[t2].pc = "done"
          /\ task[t1].copy = "ok" /\ task[t2].copy = "ok" ) =>
            \A t \in {t1, t2} :
                 /\ task[t].result = "ok"
                 /\ task[t].file_id \in DOMAIN metadata
                 /\ (task[t1].flush = "ok" /\ task[t2].flush = "ok" /\ disk.kind = "complete") =>
                      task[t].file_id \in DOMAIN LoadMetadata(disk)

\* C5: two concurrent uploads of different file ids by one owner both succeed
\* and both records are in the index and in the durable file. Neither call
\* loses the other's record: the step in which an upload stores its record
\* puts the record it built under its file id and leaves every record under
\* another file id as it was, and a flush that succeeds writes the whole
\* index of that moment.
C5_NoLostUpdate ==
    /\ []BothUploadsStored
    /\ [][\A t \in Tasks :
             task[t].op = "upload" =>
                 /\ (task[t].pc = "up_copy" /\ task'[t].copy = "ok") =>
                      /\ task[t].file_id \in DOMAIN metadata'
                      /\ metadata'[task[t].file_id] = task'[t].meta
                      /\ \A k \in DOMAIN metadata \ {task[t].file_id} :
                            k \in DOMAIN metadata' /\ metadata'[k] = metadata[k]
                 /\ (task[t].pc = "save_dump" /\ task'[t].flush = "ok") =>
                      LoadMetadata(disk') = metadata']_vars

C5_Witness ==
    \E t1 \in Uploads : \E t2 \in Uploads :
        /\ t1 # t2
        /\ task[t1].file_id # task[t2].file_id
        /\ task[t1].user_id = task[t2].user_id
        /\ task[t1].pc = "done" /\ task[t2].pc = "done"
        /\ task[t1].flush = "ok" /\ task[t2].flush = "ok"
        /\ task[t1].chan = "ok"
        /\ DOMAIN LoadMetadata(disk) = {task[t1].file_id, task[t2].file_id}

\* The index as it was before the mutation task t is flushing: self.metadata
\* as _store_file_metadata, or the del of delete_file, found it.
PreIndex(t) == task[t].pre

\* C6 (as claimed): while a flush is under way the durable file is whole and
\* holds the index as it was before the mutation or as it is after it.
C6_FlushAtomic ==
    \A t \in Tasks :
        task[t].pc = "save_dump" =>
            /\ disk.kind = "complete"
            /\ disk.data \in {PreIndex(t), metadata}

\* C7 (as claimed): whenever no flush is under way, the index a restart would
\* load from the durable file is the in-memory index.
C7_WriteThrough ==
    LoopIdle => LoadMetadata(disk) = metadata

\* C8 (as claimed): a file id for which delete_file answered True to its owner,
\* and which has not been uploaded since, is not found by that owner's lookup
\* and is not in the owner's listing.
C8_DeletedStaysGone ==
    \A g \in gone :
        /\ GetFileMetadata(metadata, g[1], g[2]) = NoMeta
        /\ g[1] \notin ListUserFiles(metadata, g[2])

\* C9 (as claimed): a delete_file that found the caller's record and ran to
\* its end, not being cancelled, answers True.
C9_DeleteOwnIsTrue ==
    \A t \in Deletes :
        (task[t].seen = "own" /\ task[t].pc = "done" /\ task[t].result # "cancelled") =>
            task[t].result = "true"

\* C10: a step in which delete_file looks up a file id that is absent or
\* belongs to another owner ends the call with False and changes neither the
\* index, the durable file, the local files, the staged files nor the channel.
C10_DeleteNotFoundFrame ==
    [][ \A t \in Tasks :
          ( /\ task'[t] # task[t]
            /\ task'[t].op = "delete"
            /\ task'[t].seen \in {"absent", "other"} ) =>
              /\ task'[t].pc = "done"
              /\ task'[t].result = "false"
              /\ UNCHANGED <<metadata, disk, files, temps, channel, gone>> ]_vars

C10_Witness ==
    \E t \in Deletes :
        /\ task[t].seen = "other"
        /\ task[t].result = "false"
        /\ task[t].file_id \in DOMAIN metadata
        /\ metadata[task[t].file_id].stored_file_path \in files

\* The ways the channel fetch of a download fails.
FetchFailures == {"raised", "missing", "not_staged"}

\* C11: a download whose channel fetch failed, in any of the ways it can, went
\* on to the recorded local path; when the local backup was there it is the
\* file decompressed, and the call ends with the original bytes unless reading
\* the backup itself failed or the backup is the truncated start of a later
\* copy that failed over it (an upload under a file_id that was already taken,
\* which the caller is to avoid), or the caller cancelled the call.
C11_DownloadFallback ==
    \A t \in Downloads :
        task[t].fetch \in FetchFailures =>
            /\ task[t].pc \in {"dl_local", "dl_decompress", "done"}
            /\ task[t].pc # "dl_local" => task[t].local \in {"found", "missing"}
            /\ task[t].local = "found" =>
                 /\ task[t].compressed = task[t].meta.stored_file_path
                 /\ (task[t].pc = "done" /\ task[t].result # "cancelled") =>
                      task[t].dec \in {"ok", "io_failed", "truncated"}
                 /\ (task[t].pc = "done" /\ task[t].dec = "ok") =>
                      /\ task[t].result = "ok"
                      /\ task[t].out = OriginalContent

C11_Witness ==
    \E t \in Downloads :
        /\ task[t].fetch = "missing"
        /\ task[t].meta.telegram_message_id # None
        /\ task[t].local = "found"
        /\ task[t].pc = "done"
        /\ task[t].result = "ok"

\* C12: a finished download answered None exactly when the lookup scoped to
\* the owner found no record; one whose record exists but for which neither
\* the channel fetch nor the local path gave a file has raised, and the local
\* path was the last thing it tried.
C12_NotFoundOrError ==
    \A t \in Downloads :
        /\ task[t].pc = "done" =>
             (task[t].result = "not_found" <=> task[t].seen \in {"absent", "other"})
        /\ task[t].contacted \subseteq {"channel", "local"}
        /\ task[t].local = "missing" =>
             /\ task[t].pc = "done"
             /\ task[t].result = "raised"
             /\ task[t].seen = "own"
             /\ task[t].fetch # "staged"
             /\ task[t].contacted \subseteq {"channel"}

C12_Witness ==
    \E t \in Downloads :
        /\ task[t].local = "missing"
        /\ task[t].fetch \in FetchFailures
        /\ task[t].result = "raised"
        /\ task[t].file_id \in DOMAIN metadata

\* C13 (as claimed): a download of the caller's own record that obtained a
\* compressed file, from the channel into its staged path or from the local
\* backup, and whose read of it did not fail, returns the original bytes.
C13_RoundTrip ==
    \A t \in Downloads :
        ( /\ task[t].pc = "done"
          /\ task[t].seen = "own"
          /\ task[t].fetch = "staged" \/ task[t].local = "found"
          /\ task[t].dec \notin {"io_failed", "truncated"}
          /\ task[t].result # "cancelled" ) =>
            /\ task[t].result = "ok"
            /\ task[t].out = OriginalContent

\* The file ids of user_id in the order their records were put in the index.
InsertedBy(user_id) ==
    SelectSeq(order, LAMBDA k : metadata[k].user_id = user_id)

\* C14 (as claimed): the listing of every owner is ordered by upload_date
\* descending, and its first entry is the record of that owner that was put
\* in the index last.
C14_NewestFirst ==
    \A u \in Owners :
        LET listing == ListUserFilesSorted(metadata, order, u)
        IN  /\ \A i \in 1..Len(listing) : \A j \in i..Len(listing) :
                  listing[i].upload_date >= listing[j].upload_date
            /\ listing # << >> =>
                  listing[1].file_id = InsertedBy(u)[Len(InsertedBy(u))]

\* C15: the listing of every owner holds exactly the records of the index
\* whose user_id is that owner, each once, and each entry is made from the
\* record stored under its file id.
C15_ListExactlyOwn ==
    \A u \in Owners :
        LET listing == ListUserFilesSorted(metadata, order, u)
            own == {k \in DOMAIN metadata : metadata[k].user_id = u}
        IN  /\ {listing[i].file_id : i \in 1..Len(listing)} = own
            /\ Len(listing) = Cardinality(own)
            /\ \A i \in 1..Len(listing) :
                  listing[i] = ListEntry(listing[i].file_id, metadata[listing[i].file_id])

C15_Witness ==
    \E f \in DOMAIN metadata : \E g \in DOMAIN metadata :
        /\ metadata[f].user_id # metadata[g].user_id
        /\ Len(ListUserFilesSorted(metadata, order, metadata[f].user_id)) = 1
        /\ Len(ListUserFilesSorted(metadata, order, metadata[g].user_id)) = 1

\* C16: every record of the index carries the local path its upload copied
\* the file to, the path built from the record's owner and file id; while the
\* upload that stored it is flushing, the file is there.
C16_RecordHasLocalPath ==
    /\ \A f \in DOMAIN metadata :
          \E p \in SourcePaths :
              metadata[f].stored_file_path = StoredFilePath(metadata[f].user_id, f, p)
    /\ \A t \in Uploads :
          task[t].pc \in {"save_open", "save_dump"} =>
              /\ task[t].file_id \in DOMAIN metadata
              /\ metadata[task[t].file_id].stored_file_path \in files

C16_Witness ==
    \E t \in Uploads :
        /\ task[t].pc = "save_dump"
        /\ task[t].chan = "ok"
        /\ metadata[task[t].file_id].storage_type = "telegram_channel"
        /\ metadata[task[t].file_id].stored_file_path \in files

\* C17: the storage type of every record names a location the record holds:
\* telegram_channel comes with a message id and the link made from it, local
\* comes with a local path; there is no other storage type.
C17_PrimaryKindIsHeld ==
    \A f \in DOMAIN metadata :
        LET rec == metadata[f]
        IN  /\ rec.storage_type \in {"telegram_channel", "local"}
            /\ rec.storage_type = "telegram_channel" =>
                  /\ rec.telegram_message_id # None
                  /\ rec.channel_link = ChannelLink(rec.telegram_message_id)
                  /\ rec.public_link = rec.channel_link
            /\ rec.storage_type = "local" =>
                  /\ rec.stored_file_path # << >>
                  /\ rec.public_link = rec.stored_file_path

C17_Witness ==
    \E f \in DOMAIN metadata : \E g \in DOMAIN metadata :
        /\ metadata[f].storage_type = "telegram_channel"
        /\ metadata[g].storage_type = "local"

\* C18: an upload that returned chose the channel as primary storage and
\* returned the channel link exactly when its channel upload succeeded, and
\* otherwise chose local and returned the local path; no other backend is
\* ever chosen.
C18_FirstSucceededIsPrimary ==
    \A t \in Uploads :
        (task[t].pc = "done" /\ task[t].result = "ok") =>
            IF task[t].chan = "ok"
            THEN /\ task[t].meta.storage_type = "telegram_channel"
                 /\ task[t].ret = ChannelLink(task[t].telegram_message_id)
                 /\ task[t].ret = task[t].meta.public_link
            ELSE /\ task[t].chan \in ChannelFailures
                 /\ task[t].meta.storage_type = "local"
                 /\ task[t].ret = StoredFilePath(task[t].user_id, task[t].file_id, task[t].file_path)
                 /\ task[t].ret = task[t].meta.public_link

C18_Witness ==
    \E t \in Uploads :
        /\ task[t].pc = "done"
        /\ task[t].result = "ok"
        /\ task[t].chan = "ok"
        /\ task[t].ret = ChannelLink(task[t].telegram_message_id)
        /\ task[t].telegram_message_id \in channel

\* C19: a restart always completes: the index is what the metadata file
\* holds, and the empty index when the file is missing or cannot be read;
\* the manager is constructed with no client and no channel manager.
C19_LoadNeverFails ==
    [][ crashes' # crashes =>
          /\ metadata' = (IF disk.kind = "complete" THEN disk.data ELSE EmptyIndex)
          /\ disk.kind \in {"missing", "torn"} => (metadata' = EmptyIndex /\ order' = << >>)
          /\ DOMAIN metadata' = {order'[i] : i \in 1..Len(order')}
          /\ client' = FALSE
          /\ manager' = "none"
          /\ \A t \in Tasks : task'[t] = Idle ]_vars

C19_Witness ==
    /\ crashes = 1
    /\ disk.kind = "torn"
    /\ metadata = EmptyIndex
    /\ files # {}
    /\ \A t \in Tasks : task[t] = Idle

\* C20 (as claimed): a compress_file call that failed has left no file at its
\* output path, and one that was rejected for its algorithm or its missing
\* input created no output file.
C20_NoPartialOutput ==
    (comp.pc = "done" /\ comp.result # "ok") =>
        /\ comp.why \in {"unsupported", "missing"} => ~comp.created
        /\ comp.why \notin {"unsupported", "missing"} =>
              CompressOutputPath(comp.input_path, comp.algorithm) \notin temps

\* C21: a file compress_file wrote with one of the three algorithms is read
\* back by decompress_file with that same algorithm; and a decompress_file
\* call on a path whose end is none of the recognised suffixes has raised and
\* made no output, neither a file nor a directory.
C21_SuffixConvention ==
    /\ \A p \in InputPaths : \A a \in SupportedAlgorithms :
         DecompressAlgorithm(CompressOutputPath(p, a)) = a
    /\ ( /\ dcmp.pc \in {"reading", "done"}
         /\ comp.result = "ok"
         /\ dcmp.input_path = CompressOutputPath(comp.input_path, comp.algorithm)
         /\ dcmp.why # "missing" ) =>
            dcmp.algorithm = comp.algorithm
    /\ ( /\ dcmp.pc # "idle"
         /\ Suffix(dcmp.input_path) \notin {".zip", ".gz", ".gzip", ".xz", ".lzma"} ) =>
            /\ dcmp.pc = "done"
            /\ dcmp.result = "raised"
            /\ dcmp.why \in {"missing", "unrecognised"}
            /\ dcmp.made = {}

C21_Witness ==
    /\ comp.result = "ok"
    /\ comp.algorithm = "lzma"
    /\ dcmp.pc = "done"
    /\ dcmp.input_path = CompressOutputPath(comp.input_path, comp.algorithm)
    /\ dcmp.result = "ok"
    /\ dcmp.algorithm = "lzma"

\* C22 (as claimed): the compression_ratio of every record stored by the upload
\* handler is the direct computation (1 - compressed_size / original_size) * 100
\* from the sizes of that record, also when the compressed file is the larger
\* one, and 0 for an empty original.
C22_RatioIsDirect ==
    \A f \in DOMAIN metadata :
        metadata[f].compression_ratio =
            CompressionInfoRatio(metadata[f].original_size, metadata[f].compressed_size)

\* A handler that was entered with too large a file has fetched, compressed
\* and stored nothing, and is sending its rejection or has ended.
TooLargeNeverProcessed ==
    handler.file_size > MAX_FILE_SIZE =>
        /\ handler.pc \in {"reject_reply", "done"}
        /\ ~handler.fetched /\ ~handler.compressed /\ ~handler.stored
        /\ handler.pc = "done" => handler.result \in {"rejected", "raised", "cancelled"}

\* C23: handle_file_upload entered with a file larger than MAX_FILE_SIZE goes
\* to the rejection message and from there to its end, whether the message
\* was sent or sending it raised or was cancelled; neither step changes the
\* index, the durable file, the local files, the temp directory, the channel
\* or any storage call, and nothing is ever fetched, compressed or stored for
\* it. A file of exactly MAX_FILE_SIZE passes the check and goes on to the
\* progress message and the fetch.
C23_TooLargeRejectedFirst ==
    /\ []TooLargeNeverProcessed
    /\ [][ /\ ( /\ handler' # handler
                /\ handler.pc \in {"idle", "done"} ) =>
                 /\ handler'.file_size > MAX_FILE_SIZE =>
                      /\ handler'.pc = "reject_reply"
                      /\ UNCHANGED <<metadata, disk, files, temps, task, channel>>
                 /\ handler'.file_size = MAX_FILE_SIZE =>
                      /\ handler'.pc = "progress_reply"
                      /\ handler'.result = "none"
           /\ ( /\ handler' # handler
                /\ handler.pc = "reject_reply" ) =>
                 /\ handler'.pc = "done"
                 /\ handler'.result \in {"rejected", "raised", "cancelled"}
                 /\ UNCHANGED <<metadata, disk, files, temps, task, channel>>
           /\ ( /\ handler.pc = "progress_reply"
                /\ handler.file_size = MAX_FILE_SIZE
                /\ handler'.pc # "progress_reply" ) =>
                 handler'.pc \in {"fetch", "done"} ]_vars

\* The rejection of too large a file was sent, and a file of exactly
\* MAX_FILE_SIZE is being fetched.
C23_Witness ==
    /\ handler.pc = "done"
    /\ handler.result = "rejected"
    /\ handler.file_size > MAX_FILE_SIZE
    /\ ~handler.fetched
    /\ temps = {}
    /\ client

\* C24: every step that changes the in-memory index, other than a restart, is
\* the mutation of one upload_file or delete_file call, which goes straight on
\* to its flush; and from then until that flush has ended no step changes the
\* index or the durable file except the steps of that same call, and no other
\* call moves.
C24_FlushNotInterleaved ==
    [][ crashes' = crashes =>
          /\ metadata' # metadata =>
                \E t \in Tasks :
                    /\ task[t].pc \in {"up_copy", "del_index"}
                    /\ task'[t].pc = "save_open"
          /\ \A t \in Tasks :
                task[t].pc \in {"save_open", "save_dump"} =>
                    /\ metadata' = metadata
                    /\ disk' # disk => task'[t] # task[t]
                    /\ \A s \in Tasks \ {t} : task'[s] = task[s] ]_vars

C24_Witness ==
    \E t \in Tasks : \E s \in Tasks :
        /\ task[t].pc = "save_dump"
        /\ task[t].op = "delete"
        /\ task[s].pc = "up_send"
        /\ task[s].file_id # task[t].file_id
        /\ disk = TornFile

\* C25 (as claimed): while a delete_file call is suspended, the owner's lookup
\* of its file id either finds nothing, or finds the record with the local
\* backup still in place unless the backup was already missing before the
\* delete; so no download started meanwhile finds the record without its file.
C25_NoHalfAppliedDelete ==
    \A t \in Deletes :
        (task[t].pc = "del_msg" /\ task[t].rm = "ok") =>
            LET meta == GetFileMetadata(metadata, task[t].file_id, task[t].user_id)
            IN  /\ meta = NoMeta \/ meta.stored_file_path \in files
                /\ \A d \in Downloads :
                      (task[d].file_id = task[t].file_id /\ task[d].seen = "own") =>
                          task[d].local # "missing"

\* C26: the index comes to hold a new or changed record only in the step
\* in which an upload_file call whose channel attempt is over completes its
\* local copy, and that record is the one this call built (a restart, which
\* reloads the index from the file, aside). No step of a call that is waiting
\* for the channel, and no failure or cancellation, puts a record in the
\* index, so a lookup or listing never sees the record of an upload that has
\* not reached its metadata write.
C26_RecordOnlyAtTheEnd ==
    [][\A k \in FileIds :
          ( /\ crashes' = crashes
            /\ k \in DOMAIN metadata'
            /\ (k \notin DOMAIN metadata \/ metadata'[k] # metadata[k]) ) =>
              \E t \in Tasks :
                  /\ task[t].op = "upload"
                  /\ task[t].file_id = k
                  /\ task[t].pc = "up_copy"
                  /\ task[t].chan \in {"ok"} \cup ChannelFailures
                  /\ task'[t].pc = "save_open"
                  /\ task'[t].copy = "ok"
                  /\ metadata'[k] = task'[t].meta]_vars

C26_Witness ==
    \E t \in Uploads : \E s \in Uploads :
        /\ task[t].pc = "done"
        /\ task[t].result = "cancelled"
        /\ task[s].pc = "save_open"
        /\ task[s].chan = "ok"
        /\ task[s].telegram_message_id \in channel
        /\ DOMAIN metadata = {task[s].file_id}
        /\ metadata[task[s].file_id] = task[s].meta

\* C27: a record holds a channel link exactly when it holds a message id; and
\* a download of a record without one never asks the channel, whether or not
\* a client is set and the channel manager initialized by then: it goes to
\* the recorded local path, and the local backup is the file it decompresses.
C27_NoChannelRefNoChannelCall ==
    /\ \A f \in DOMAIN metadata :
          metadata[f].channel_link = NoLink <=> metadata[f].telegram_message_id = None
    /\ \A t \in Downloads :
          (task[t].seen = "own" /\ task[t].meta.telegram_message_id = None) =>
              /\ "channel" \notin task[t].contacted
              /\ task[t].fetch = "-"
              /\ task[t].pc \in {"dl_local", "dl_decompress", "done"}
              /\ task[t].pc # "dl_local" => task[t].local \in {"found", "missing"}
              /\ task[t].local = "found" =>
                    task[t].compressed = task[t].meta.stored_file_path

C27_Witness ==
    \E t \in Downloads :
        /\ task[t].meta # NoMeta
        /\ task[t].meta.telegram_message_id = None
        /\ task[t].meta.storage_type = "local"
        /\ channelId /\ client /\ manager = "initialized"
        /\ task[t].pc = "done"
        /\ task[t].result = "ok"
        /\ task[t].contacted = {"local"}

\* C28 (as claimed): once a download that staged a channel fetch has ended,
\* whether it returned or raised, its staged file is no longer in the temp
\* directory.
C28_StagedFileRemoved ==
    \A t \in Downloads :
        (task[t].pc = "done" /\ task[t].fetch = "staged" /\ task[t].result # "cancelled") =>
            task[t].staging \notin temps

\* C29 (as claimed): a download given a progress callback ends as the same
\* download without one: it raises only for what makes that one raise, a
\* missing local backup or a failed decompression, and once the file is
\* decompressed it returns the original bytes.
C29_SinkFailureHarmless ==
    \A t \in Downloads :
        (task[t].pc = "done" /\ task[t].seen = "own" /\ task[t].result # "cancelled") =>
            /\ task[t].result = "raised" =>
                  \/ task[t].local = "missing"
                  \/ task[t].dec \in {"unrecognised", "bad_data", "io_failed", "truncated", "input_missing"}
            /\ task[t].dec = "ok" =>
                  /\ task[t].result = "ok"
                  /\ task[t].out = OriginalContent

\* C30 (as claimed): under fair scheduling every storage call that has been
\* entered ends, by returning or by raising, also when the channel backend
\* has stopped answering.
C30_CallsEnd ==
    \A t \in Tasks :
        (task[t].pc \notin {"idle", "done"}) ~> (task[t].pc \in {"idle", "done"})

\* C31: the backends a call has attempted are each there once: an upload and
\* a download attempt the channel first, if at all, and the local copy after
\* it; a delete removes the local backup first and asks the channel after it.
\* No call attempts a backend a second time or goes back to an earlier one.
C31_NoRetry ==
    \A t \in Tasks :
        /\ task[t].op \in {"upload", "download"} =>
              task[t].tried \in {<< >>, <<"channel">>, <<"local">>, <<"channel", "local">>}
        /\ task[t].op = "delete" =>
              task[t].tried \in {<< >>, <<"local">>, <<"channel">>, <<"local", "channel">>}
        /\ task[t].fetch \in FetchFailures =>
              /\ task[t].tried[1] = "channel"
              /\ task[t].pc \notin {"dl_get", "dl_media"}
        /\ task[t].chan \in {"returned_none", "raised"} => task[t].pc # "up_send"

C31_Witness ==
    \E t \in Downloads :
        /\ task[t].fetch = "raised"
        /\ task[t].tried = <<"channel", "local">>
        /\ task[t].pc = "done"
        /\ task[t].result = "ok"

\* Downloads that have been entered and have not ended.
DownloadsInFlight == {t \in Downloads : task[t].pc # "done"}

\* C32 (as claimed): two downloads in flight at once never share a path: their
\* channel staging paths differ, and the output paths of their decompressions
\* differ.
C32_DistinctStagingPaths ==
    \A t1 \in DownloadsInFlight : \A t2 \in DownloadsInFlight \ {t1} :
        /\ (task[t1].staging # << >> /\ task[t2].staging # << >>) =>
              task[t1].staging # task[t2].staging
        /\ ( /\ task[t1].pc = "dl_decompress" /\ task[t2].pc = "dl_decompress"
             /\ task[t1].local = "found" /\ task[t2].local = "found" ) =>
              StoredOutputPath(task[t1].compressed, DecompressAlgorithm(task[t1].compressed))
                # StoredOutputPath(task[t2].compressed, DecompressAlgorithm(task[t2].compressed))

\* C33 (as claimed): when handle_file_upload has ended with the failure
\* message, the index holds no record under the file id the request generated,
\* if it got as far as generating one; when it has ended with the success
\* message, the file id shown is the key of a record of the user.
C33_FailureLeavesNoRecord ==
    handler.pc = "done" =>
        /\ handler.result = "failed" =>
              /\ ~handler.stored
              /\ handler.file_id \notin DOMAIN metadata
        /\ handler.result = "ok" =>
              /\ handler.file_id \in DOMAIN metadata
              /\ metadata[handler.file_id].user_id = handler.user_id

\* C34 (as claimed): upload_file tries the channel exactly when the channel
\* manager exists and its initialize() has succeeded: a call made with no
\* manager, with a manager not yet verified or with one whose verification
\* failed goes straight to the local copy; and a manager whose initialize()
\* has succeeded stays initialized for as long as it is the manager (until
\* set_telethon_client makes a new one or the process restarts), so that
\* every upload_file entered from then on tries the channel first.
C34_OnceInitializedAlways ==
    [][/\ \A t \in Tasks :
            (calls' # calls /\ task'[t] # task[t] /\ task'[t].op = "upload")
                => /\ (task'[t].pc = "up_send") <=> (manager = "initialized")
                   /\ (task'[t].pc = "up_copy") <=> (manager # "initialized")
                   /\ channel' = channel
       /\ (manager = "initialized" /\ manager' # "initialized")
            => manager' \in {"new", "none"}]_vars

\* C34: upload_file tries the channel exactly when, as it is entered, the
\* channel manager exists and the latest initialize() on it succeeded: a call
\* made with no manager, with a manager not yet verified (also one that
\* set_telethon_client has put in the place of a verified one) or with one
\* whose latest initialize() failed goes straight to the local copy, and the
\* channel receives a message only from an upload that took the channel
\* branch when it was entered.
C34_ChannelIffInitialized ==
    [][/\ \A t \in Tasks :
            (calls' # calls /\ task'[t] # task[t] /\ task'[t].op = "upload")
                => /\ (task'[t].pc = "up_send") <=> (manager = "initialized")
                   /\ (task'[t].pc = "up_copy") <=> (manager # "initialized")
                   /\ channel' = channel
       /\ channel' # channel /\ nextMsg' # nextMsg
            => \E t \in Tasks : /\ task[t].op = "upload"
                                /\ task[t].pc = "up_send"
                                /\ "channel" \in task[t].contacted]_vars

\* An upload entered after initialize() succeeded waits for the channel, a
\* later initialize() has failed, and an upload entered after that is at the
\* local copy with nothing sent for it.
C34_Witness ==
    /\ manager = "failed"
    /\ client
    /\ \E t \in Tasks : \E s \in Tasks :
         /\ task[t].op = "upload" /\ task[t].pc = "up_send"
         /\ task[t].tried = <<"channel">> /\ task[t].chan = "-"
         /\ task[s].op = "upload" /\ task[s].pc = "up_copy"
         /\ task[s].tried = << >> /\ task[s].chan = "not_initialized"

\* C35: every upload_file call that returned a reference has made an attempt
\* at the cloud client, whatever the channel attempt did (succeeded, failed,
\* skipped).
C35_CloudAttempted ==
    \A t \in Uploads :
        (task[t].pc = "done" /\ task[t].result = "ok") =>
            /\ "cloud" \in task[t].contacted
            /\ \E i \in 1..Len(task[t].tried) : task[t].tried[i] = "cloud"

\* C36: the Index holds one record per file_id whoever owns it: the record an
\* upload_file stores under a file_id already present takes the place of the
\* one that was there (the dict gains no key), the record found under that
\* file_id is the last one stored, and a lookup by the owner of the replaced
\* record finds nothing when the new record has another owner.
C36_OneRecordPerFileId ==
    [][/\ Len(order') = Cardinality(DOMAIN metadata')
       /\ {order'[i] : i \in 1..Len(order')} = DOMAIN metadata'
       /\ \A t \in Tasks :
            (task[t].pc = "up_copy" /\ task'[t].pc = "save_open") =>
                LET k == task[t].file_id
                IN  /\ DOMAIN metadata' = DOMAIN metadata \cup {k}
                    /\ metadata'[k] = task'[t].meta
                    /\ k \in DOMAIN metadata =>
                         /\ order' = order
                         /\ metadata[k].user_id # metadata'[k].user_id =>
                              GetFileMetadata(metadata', k, metadata[k].user_id) = NoMeta
                         /\ GetFileMetadata(metadata', k, metadata'[k].user_id) = metadata'[k]]_vars

\* File 1 was stored for user 1 and then for user 2: the Index has one record,
\* user 2's, and user 1's lookup finds nothing although user 1's backup is on
\* the disk.
C36_Witness ==
    /\ DOMAIN metadata = {1}
    /\ order = <<1>>
    /\ metadata[1].user_id = 2
    /\ GetFileMetadata(metadata, 1, 1) = NoMeta
    /\ \E p \in SourcePaths : StoredFilePath(1, 1, p) \in files /\ StoredFilePath(2, 1, p) \in files
    /\ \E t \in Uploads : task[t].pc = "done" /\ task[t].file_id = 1 /\ task[t].user_id = 2
                           /\ task[t].desc \in HandlerDescriptors

\* C37: the record the Index holds under key k names k as its file_id, and
\* the record an upload_file call stored names the user id the call was given
\* as its owner, whatever metadata dict the caller passed.
C37_RecordIntegrity ==
    /\ \A k \in DOMAIN metadata : metadata[k].file_id = k
    /\ \A t \in Uploads :
         (task[t].pc \in {"save_open", "save_dump", "done"} /\ task[t].copy = "ok") =>
             /\ task[t].meta.file_id = task[t].file_id
             /\ task[t].meta.user_id = task[t].user_id

\* C38: of two delete_file calls for the same file_id and owner that overlap,
\* at most one returns true, and the channel is asked to delete the record's
\* message by at most one of them.
C38_DeletedOnce ==
    \A t1, t2 \in Deletes :
        ( /\ t1 # t2
          /\ task[t1].file_id = task[t2].file_id
          /\ task[t1].user_id = task[t2].user_id
          /\ task[t1].pc = "done" /\ task[t2].pc = "done" ) =>
            /\ ~(task[t1].result = "true" /\ task[t2].result = "true")
            /\ ~("channel" \in task[t1].contacted /\ "channel" \in task[t2].contacted)

\* C39: no step of a download_and_decompress or list_user_files call, however
\* the call ends, changes the Index in memory, the metadata file or the set
\* of local backup files.
C39_ReadsChangeNothing ==
    [][(\E t \in Tasks : /\ task'[t] # task[t]
                         /\ task'[t].op \in {"download", "list"}
                         /\ task'[t].cleanup = task[t].cleanup)
          => /\ metadata' = metadata
             /\ order' = order
             /\ disk' = disk
             /\ files \subseteq files'
             /\ torn' = torn]_vars

\* A download has returned the file from its local backup, leaving the
\* decompressed copy beside it, and a listing has returned the owner's
\* record: record, metadata file and backup are there.
C39_Witness ==
    /\ \E t1, t2 \in Tasks :
         /\ task[t1].op = "download" /\ task[t1].pc = "done" /\ task[t1].result = "ok"
         /\ task[t1].local = "found"
         /\ task[t1].meta.stored_file_path \in files
         /\ task[t1].decompressed_path \in files
         /\ task[t2].op = "list" /\ task[t2].pc = "done" /\ Len(task[t2].listing) = 1
    /\ metadata # EmptyIndex
    /\ disk.kind = "complete" /\ disk.data = metadata

\* C40: the values one download_and_decompress call gives its progress
\* callback never decrease; 60 is given only once a compressed file was
\* obtained, from the channel or from the local backup; 100 is given only
\* once decompression has succeeded; and a call that raised or found no
\* record has not given 100.
C40_ProgressInOrder ==
    \A t \in Downloads :
        LET p == task[t].progress
            Given(v) == \E i \in 1..Len(p) : p[i] = v
        IN  /\ \A i, j \in 1..Len(p) : i < j => p[i] <= p[j]
            /\ Given(60) => /\ task[t].compressed # << >>
                            /\ task[t].fetch = "staged" \/ task[t].local = "found"
            /\ Given(100) => task[t].dec = "ok"
            /\ (task[t].pc = "done" /\ task[t].result \in {"raised", "not_found"}) => ~Given(100)

====
